---- MODULE Spec2Model ----
(***************************************************************************)
(* Model of the Lambda error detection and auto-fix system:                *)
(*   - LambdaAutoFixer (lambda-auto-fixer, src/unnamed/part_001:742-1272)  *)
(*   - LambdaErrorOrchestrator (src/unnamed/part_002)                      *)
(*   - the Lambda control plane reached through callLambdaMCP              *)
(*                                                                         *)
(* JavaScript runs one callback at a time: every action below is the       *)
(* handling of one awaited response (or one synchronous call from outside) *)
(* up to the next request the code issues.  A control-plane call takes     *)
(* effect when its response is handled; a failed call (callLambdaMCP       *)
(* throws) has no effect.                                                  *)
(***************************************************************************)
EXTENDS Integers, Sequences, FiniteSets, TLC

\* ------------------------------------------------------------------ bounds
NumFunctions == 2
MaxInFlight == 1        \* applyFix calls an outside caller keeps in flight
MaxCalls == 2           \* applyFix calls an outside caller makes
MaxOverlap == 2          \* applyFix calls in flight at once (SpecFixerOverlap)
MaxSameCalls == 3       \* applyFix calls for one function (SpecFixerSame)
RunDeadline == 1        \* wall-clock budget of one run, counted from its start
MaxListLen == 2         \* length of MONITOR_FUNCTIONS
MaxConcurrent == 2      \* largest MAX_CONCURRENT_FIXES
MaxCycles == 2          \* cycles run in one behaviour
MaxAttempts == 2        \* cap of a cooldown entry's attempts counter (SpecGate)
MaxFailures == 3        \* cap of a cooldown entry's consecutiveFailures (SpecGate)
MaxLogLen == 2          \* log lines handed to extractErrorPatterns (SpecClassifier)
MaxSamples == 12        \* largest totalErrors handed to the knowledge functions
MaxChunkInput == 5      \* longest list handed to chunkArray (SpecChunk)
MaxChunkSize == 3       \* largest chunkSize handed to chunkArray (SpecChunk)

Functions == 1..NumFunctions

\* ------------------------------------------------- orchestrator: constants
\* config.fixCooldown; the clock ticks in units of one cooldown period
\* (FIX_COOLDOWN, default 300000 ms)
FixCooldown == 1
\* the circuit breaker's limit of consecutive failures
CircuitLimit == 3
\* the clock runs far enough to pass the stale-entry reset (2 * fixCooldown)
MaxTime == 2 * FixCooldown + 1

\* ------------------------------------------------------- fixer: constants
ConfigKinds == {"updateTimeout", "updateMemory"}
CodeKinds == {"updateDependencies", "fixSyntax", "addErrorHandling"}
\* solution.type as executeFix sees it: the five handled types, a type the
\* switch does not handle, and a recommendation with no solution at all.
SolutionTypes == ConfigKinds \cup CodeKinds \cup {"unknown", "noSolution"}

\* fixResult.type returned by each handler
ResultType(kind) ==
    CASE kind = "updateTimeout" -> "timeout"
      [] kind = "updateMemory" -> "memory"
      [] kind = "updateDependencies" -> "dependencies"
      [] kind = "fixSyntax" -> "syntax"
      [] kind = "addErrorHandling" -> "errorHandling"
      [] OTHER -> "none"

\* the configuration property a configuration fix sets to its new value
ConfigProperty(kind) ==
    IF kind = "updateTimeout" THEN "Timeout" ELSE "MemorySize"

VARIABLES
    alias,              \* control plane: PROD alias -> version, per function
    latest,             \* control plane: highest published version, per function
    cfg,                \* control plane: properties of $LATEST holding the fix's new value
    deploymentHistory,  \* fixer.deploymentHistory: function -> snapshot version (0: no entry)
    attempts,           \* applyFix invocations: sequence of attempt records
    nCalls,             \* applyFix calls made so far by an outside caller
    functionsToMonitor, \* monitor.functionsToMonitor (MONITOR_FUNCTIONS)
    maxConcurrentFixes, \* config.maxConcurrentFixes
    enableAutoFix,      \* config.enableAutoFix
    enableRollback,     \* config.enableRollback
    fixAttempts,        \* orchestrator.fixAttempts: function -> cooldown entry
    now,                \* Date.now()
    opc,                \* where orchestrateErrorDetectionAndFixing stands
    pending,            \* functionsWithErrors not yet analysed
    analysisResults,    \* analyzeErrors' result list
    fixBatches,         \* applyFixes' batches
    batchIdx,           \* index of the batch running (0: none)
    fixPromises,        \* applyFixes' settled results, in order
    cycles,             \* history: the cycles started, [byHandler, at]
    prevStarted,        \* history: functions an attempt was started for, previous cycle
    curStarted,         \* history: functions an attempt was started for, this cycle
    lastGate,           \* history: the last shouldAttemptFix call and what it returned
    returned            \* history: calls and what they returned, [fn, args, ret]
                        \* (calls from outside; in a cycle, monitorFunctions)

fixerVars == <<alias, latest, cfg, deploymentHistory, attempts, nCalls>>
configVars == <<functionsToMonitor, maxConcurrentFixes, enableAutoFix, enableRollback>>
cycleVars == <<opc, pending, analysisResults, fixBatches, batchIdx, fixPromises>>
historyVars == <<cycles, prevStarted, curStarted>>
orchVars == <<configVars, fixAttempts, now, cycleVars, historyVars, lastGate, returned>>
vars == <<fixerVars, orchVars>>

NoResult == [success |-> FALSE, rolledBack |-> FALSE, version |-> 0, error |-> ""]

\* One applyFix invocation: where it stands (pc), its arguments (fn, kind), its
\* locals (snap: currentState.currentVersion, snapCfg: currentState.configuration,
\* obsCfg: the configuration verifyFix read, ver: the version published,
\* rbTarget: the version the catch branch rolls back to), what it returned
\* (result), and history: the calls it made, the alias when it was called
\* (startAlias), the analysis entry it was started from (entryIdx), that
\* function's consecutiveFailures before the attempt (failuresBefore), and
\* whether the function's cooldown was running when the attempt was started
\* (startedInCooldown), and what verifyFix returned (verified: "none" while it
\* has not returned, then "passed" or "failed").
FreeAttempt ==
    [pc |-> "free", fn |-> 0, kind |-> "noSolution", snap |-> 0, snapCfg |-> {},
     obsCfg |-> {}, ver |-> 0, rbTarget |-> 0, calls |-> <<>>, result |-> NoResult,
     startAlias |-> 0, entryIdx |-> 0, failuresBefore |-> 0,
     startedInCooldown |-> FALSE, verified |-> "none"]

InFlight(a) == a.pc \notin {"free", "done"}

\* a call the attempt made: operation, the step that made it, the version an
\* updateAlias named, outcome
Call(op, step, version, ok) == [op |-> op, step |-> step, version |-> version, ok |-> ok]

MutatingOps == {"updateFunctionConfiguration", "updateFunctionCode",
                "publishVersion", "updateAlias"}

\* ------------------------------------------------------------ fixer: steps
\* callLambdaMCP's error message for a failed operation
McpError(op) == "Lambda MCP " \o op \o " failed"

\* applyFix's catch branch: look the function up in deploymentHistory; with an
\* entry, issue the rollback updateAlias to that entry's version; without one,
\* return at once.  Either way the result says rolledBack: true.
\* A catch branch that would keep one snapshot for the whole fixer instead of
\* one per function name.
CatchBranchSharedEntry(a, err) ==
    IF deploymentHistory'[1] # 0
    THEN [a EXCEPT !.pc = "catchRollback",
                   !.rbTarget = deploymentHistory'[1],
                   !.result = [NoResult EXCEPT !.error = err]]
    ELSE [a EXCEPT !.pc = "done",
                   !.result = [success |-> FALSE, rolledBack |-> TRUE,
                               version |-> 0, error |-> err]]

CatchBranch(a, err) ==
    IF deploymentHistory'[a.fn] # 0
    THEN [a EXCEPT !.pc = "catchRollback",
                   !.rbTarget = deploymentHistory'[a.fn],
                   !.result = [NoResult EXCEPT !.error = err]]
    ELSE [a EXCEPT !.pc = "done",
                   !.result = [success |-> FALSE, rolledBack |-> TRUE,
                               version |-> 0, error |-> err]]

\* applyFix entry: getCurrentFunctionState issues getFunction
applyFix(a, f, kind) ==
    [a EXCEPT !.pc = "snapGetFunction", !.fn = f, !.kind = kind,
              !.snap = 0, !.snapCfg = {}, !.obsCfg = {}, !.ver = 0,
              !.rbTarget = 0, !.calls = <<>>, !.result = NoResult,
              !.startAlias = alias[f], !.verified = "none"]

\* getCurrentFunctionState, first call: getFunction
SnapGetFunction(s, ok) ==
    LET a == attempts[s]
        b == [a EXCEPT !.calls = Append(@, Call("getFunction", "snapshot", 0, ok))] IN
    /\ a.pc = "snapGetFunction"
    /\ UNCHANGED <<alias, latest, cfg, deploymentHistory, nCalls>>
    /\ attempts' = [attempts EXCEPT ![s] =
          IF ok THEN [b EXCEPT !.pc = "snapGetAlias", !.snapCfg = cfg[a.fn]]
          ELSE CatchBranch(b, McpError("getFunction"))]

\* executeFix's dispatch on solution.type, entered with the snapshot stored
executeFix(b) ==
    IF b.kind \in ConfigKinds THEN [b EXCEPT !.pc = "update"]
    ELSE IF b.kind \in CodeKinds THEN [b EXCEPT !.pc = "getCode"]
    ELSE IF b.kind = "unknown" THEN CatchBranch(b, "Unknown fix type")
    ELSE CatchBranch(b, "Cannot read properties of undefined")

\* getCurrentFunctionState, second call: getAlias; then the snapshot is stored
\* in deploymentHistory and executeFix dispatches
SnapGetAlias(s, ok) ==
    LET a == attempts[s]
        b == [a EXCEPT !.calls = Append(@, Call("getAlias", "snapshot", 0, ok))] IN
    /\ a.pc = "snapGetAlias"
    /\ UNCHANGED <<alias, latest, cfg, nCalls>>
    /\ deploymentHistory' =
          IF ok THEN [deploymentHistory EXCEPT ![a.fn] = alias[a.fn]]
          ELSE deploymentHistory
    /\ attempts' = [attempts EXCEPT ![s] =
          IF ok THEN executeFix([b EXCEPT !.snap = alias[a.fn]])
          ELSE CatchBranch(b, McpError("getAlias"))]

\* code fixes read the current code first (getFunction), then build the package
GetCode(s, ok) ==
    LET a == attempts[s]
        b == [a EXCEPT !.calls = Append(@, Call("getFunction", "apply", 0, ok))] IN
    /\ a.pc = "getCode"
    /\ UNCHANGED <<alias, latest, cfg, deploymentHistory, nCalls>>
    /\ attempts' = [attempts EXCEPT ![s] =
          IF ok THEN [b EXCEPT !.pc = "update"]
          ELSE CatchBranch(b, McpError("getFunction"))]

UpdateOp(kind) ==
    IF kind \in ConfigKinds THEN "updateFunctionConfiguration" ELSE "updateFunctionCode"

\* the update call with its failure ignored: publishVersion follows either way
\* (where the code throws out of the handler)
UpdateContinuingOnFailure(s, ok) ==
    LET a == attempts[s]
        b == [a EXCEPT !.calls = Append(@, Call(UpdateOp(a.kind), "apply", 0, ok))] IN
    /\ a.pc = "update"
    /\ UNCHANGED <<alias, latest, deploymentHistory, nCalls>>
    /\ cfg' = IF ok /\ a.kind \in ConfigKinds
              THEN [cfg EXCEPT ![a.fn] = @ \cup {ConfigProperty(a.kind)}]
              ELSE cfg
    /\ attempts' = [attempts EXCEPT ![s] = [b EXCEPT !.pc = "publish"]]

\* updateFunctionConfiguration / updateFunctionCode
Update(s, ok) ==
    LET a == attempts[s]
        b == [a EXCEPT !.calls = Append(@, Call(UpdateOp(a.kind), "apply", 0, ok))] IN
    /\ a.pc = "update"
    /\ UNCHANGED <<alias, latest, deploymentHistory, nCalls>>
    /\ cfg' = IF ok /\ a.kind \in ConfigKinds
              THEN [cfg EXCEPT ![a.fn] = @ \cup {ConfigProperty(a.kind)}]
              ELSE cfg
    /\ attempts' = [attempts EXCEPT ![s] =
          IF ok THEN [b EXCEPT !.pc = "publish"]
          ELSE CatchBranch(b, McpError(UpdateOp(a.kind)))]

\* publishVersion: a new immutable version
Publish(s, ok) ==
    LET a == attempts[s]
        b == [a EXCEPT !.calls = Append(@, Call("publishVersion", "publish", 0, ok))] IN
    /\ a.pc = "publish"
    /\ UNCHANGED <<alias, cfg, deploymentHistory, nCalls>>
    /\ latest' = IF ok THEN [latest EXCEPT ![a.fn] = @ + 1] ELSE latest
    /\ attempts' = [attempts EXCEPT ![s] =
          IF ok THEN [b EXCEPT !.pc = "setAlias", !.ver = latest[a.fn] + 1]
          ELSE CatchBranch(b, McpError("publishVersion"))]

\* updateAlias PROD -> the new version; on success the handler returns and
\* verifyFix starts its settle delay
SetAlias(s, ok) ==
    LET a == attempts[s]
        b == [a EXCEPT !.calls = Append(@, Call("updateAlias", "alias", a.ver, ok))] IN
    /\ a.pc = "setAlias"
    /\ UNCHANGED <<latest, cfg, deploymentHistory, nCalls>>
    /\ alias' = IF ok THEN [alias EXCEPT ![a.fn] = a.ver] ELSE alias
    /\ attempts' = [attempts EXCEPT ![s] =
          IF ok THEN [b EXCEPT !.pc = "verifyGetFunction"]
          ELSE CatchBranch(b, McpError("updateAlias"))]

\* verifyFix's first read, with a failed read ending the attempt as failed
\* at once (where the code rolls back)
VerifyGetFunctionNoRollback(s, ok, fresh) ==
    LET a == attempts[s]
        b == [a EXCEPT !.calls = Append(@, Call("getFunction", "verify", 0, ok))] IN
    /\ a.pc = "verifyGetFunction"
    /\ UNCHANGED <<alias, latest, cfg, deploymentHistory, nCalls>>
    /\ attempts' = [attempts EXCEPT ![s] =
          IF ok
          THEN [b EXCEPT !.pc = "verifyGetAlias",
                         !.obsCfg = IF fresh THEN cfg[a.fn] ELSE a.snapCfg]
          ELSE [b EXCEPT !.pc = "done", !.verified = "failed",
                         !.result = [success |-> FALSE, rolledBack |-> FALSE,
                                     version |-> 0,
                                     error |-> "Fix verification failed"]]]

\* verifyFix, first read: getFunction.  The control plane is eventually
\* consistent (the code waits for the deployment "to propagate"): the read
\* returns the current configuration, or still the one the snapshot saw.
\* A failed read makes verifyFix return success: false, and applyFix rolls back.
VerifyGetFunction(s, ok, fresh) ==
    LET a == attempts[s]
        b == [a EXCEPT !.calls = Append(@, Call("getFunction", "verify", 0, ok))] IN
    /\ a.pc = "verifyGetFunction"
    /\ UNCHANGED <<alias, latest, cfg, deploymentHistory, nCalls>>
    /\ attempts' = [attempts EXCEPT ![s] =
          IF ok
          THEN [b EXCEPT !.pc = "verifyGetAlias",
                         !.obsCfg = IF fresh THEN cfg[a.fn] ELSE a.snapCfg]
          ELSE [b EXCEPT !.pc = "rollback", !.verified = "failed"]]

\* verifyFix's switch on fixResult.type
verificationPassed(a, obsAlias) ==
    CASE ResultType(a.kind) \in {"timeout", "memory"} ->
             ConfigProperty(a.kind) \in a.obsCfg
      [] ResultType(a.kind) \in {"dependencies", "syntax", "errorHandling"} ->
             obsAlias = a.ver
      [] OTHER -> FALSE

\* verifyFix, second read: getAlias; then applyFix returns success or
\* issues the rollback
VerifyGetAlias(s, ok, fresh) ==
    LET a == attempts[s]
        b == [a EXCEPT !.calls = Append(@, Call("getAlias", "verify", 0, ok))]
        obsAlias == IF fresh THEN alias[a.fn] ELSE a.snap IN
    /\ a.pc = "verifyGetAlias"
    /\ UNCHANGED <<alias, latest, cfg, deploymentHistory, nCalls>>
    /\ attempts' = [attempts EXCEPT ![s] =
          IF ok /\ verificationPassed(a, obsAlias)
          THEN [b EXCEPT !.pc = "done", !.verified = "passed",
                         !.result = [success |-> TRUE, rolledBack |-> FALSE,
                                     version |-> a.ver, error |-> ""]]
          ELSE [b EXCEPT !.pc = "rollback", !.verified = "failed"]]

\* rollbackFix called from the verification-failed branch, with the snapshot
\* of this attempt; when it throws, the catch branch runs
Rollback(s, ok) ==
    LET a == attempts[s]
        b == [a EXCEPT !.calls = Append(@, Call("updateAlias", "rollback", a.snap, ok))] IN
    /\ a.pc = "rollback"
    /\ UNCHANGED <<latest, cfg, deploymentHistory, nCalls>>
    /\ alias' = IF ok THEN [alias EXCEPT ![a.fn] = a.snap] ELSE alias
    /\ attempts' = [attempts EXCEPT ![s] =
          IF ok
          THEN [b EXCEPT !.pc = "done",
                         !.result = [success |-> FALSE, rolledBack |-> TRUE,
                                     version |-> 0,
                                     error |-> "Fix verification failed"]]
          ELSE CatchBranch(b, McpError("updateAlias"))]

\* rollbackFix called from the catch branch; its failure is logged and swallowed
CatchRollback(s, ok) ==
    LET a == attempts[s]
        b == [a EXCEPT !.calls = Append(@, Call("updateAlias", "rollback", a.rbTarget, ok))] IN
    /\ a.pc = "catchRollback"
    /\ UNCHANGED <<latest, cfg, deploymentHistory, nCalls>>
    /\ alias' = IF ok THEN [alias EXCEPT ![a.fn] = a.rbTarget] ELSE alias
    /\ attempts' = [attempts EXCEPT ![s] =
          [b EXCEPT !.pc = "done",
                    !.result = [success |-> FALSE, rolledBack |-> TRUE,
                                version |-> 0, error |-> a.result.error]]]

\* one step of some attempt in flight
FixerStep ==
    /\ UNCHANGED orchVars
    /\ \E s \in DOMAIN attempts :
           \/ \E ok \in BOOLEAN : SnapGetFunction(s, ok)
           \/ \E ok \in BOOLEAN : SnapGetAlias(s, ok)
           \/ \E ok \in BOOLEAN : GetCode(s, ok)
           \/ \E ok \in BOOLEAN : Update(s, ok)
           \/ \E ok \in BOOLEAN : Publish(s, ok)
           \/ \E ok \in BOOLEAN : SetAlias(s, ok)
           \/ \E ok \in BOOLEAN, fresh \in BOOLEAN : VerifyGetFunction(s, ok, fresh)
           \/ \E ok \in BOOLEAN, fresh \in BOOLEAN : VerifyGetAlias(s, ok, fresh)
           \/ \E ok \in BOOLEAN : Rollback(s, ok)
           \/ \E ok \in BOOLEAN : CatchRollback(s, ok)

\* ------------------------------------------- monitor: error classification
\* the categories, in the order extractErrorPatterns declares its counters
Categories == <<"timeout", "memory", "permission", "import", "syntax", "runtime", "other">>

CategorySet == {Categories[i] : i \in DOMAIN Categories}

\* A log line, as far as the classifier tells lines apart: the set of
\* categories one of whose keywords the lower-cased message contains.
LogLines == SUBSET (CategorySet \ {"other"})

\* the if / else-if chain of extractErrorPatterns' loop body
Classify(line) ==
    IF "timeout" \in line THEN "timeout"
    ELSE IF "memory" \in line THEN "memory"
    ELSE IF "permission" \in line THEN "permission"
    ELSE IF "import" \in line THEN "import"
    ELSE IF "syntax" \in line THEN "syntax"
    ELSE IF "runtime" \in line THEN "runtime"
    ELSE "other"

\* the loop body as a row of independent ifs: every category the line matches
\* is counted
RECURSIVE CountPatternsEveryMatch(_, _)
CountPatternsEveryMatch(patterns, errorLogs) ==
    IF errorLogs = <<>> THEN patterns
    ELSE CountPatternsEveryMatch(
             [c \in CategorySet |->
                 patterns[c] + (IF \/ c \in Head(errorLogs)
                                   \/ c = "other" /\ Head(errorLogs) = {}
                                THEN 1 ELSE 0)],
             Tail(errorLogs))

\* errorLogs.forEach: one counter is incremented per line
RECURSIVE CountPatterns(_, _)
CountPatterns(patterns, errorLogs) ==
    IF errorLogs = <<>> THEN patterns
    ELSE CountPatterns([patterns EXCEPT ![Classify(Head(errorLogs))] = @ + 1],
                       Tail(errorLogs))

\* the reduce keeping a on equal counts (>= where the code has >)
RECURSIVE ReduceEntriesKeepFirst(_, _, _)
ReduceEntriesKeepFirst(patterns, a, i) ==
    IF i > Len(Categories) THEN a
    ELSE ReduceEntriesKeepFirst(patterns,
                                IF patterns[a] >= patterns[Categories[i]] THEN a
                                ELSE Categories[i],
                                i + 1)

\* Object.entries(patterns).reduce((a, b) => patterns[a[0]] > patterns[b[0]] ? a : b),
\* with no initial value: a starts as the first entry, b runs over the rest
RECURSIVE ReduceEntries(_, _, _)
ReduceEntries(patterns, a, i) ==
    IF i > Len(Categories) THEN a
    ELSE ReduceEntries(patterns,
                       IF patterns[a] > patterns[Categories[i]] THEN a ELSE Categories[i],
                       i + 1)

\* extractErrorPatterns(errorLogs)
extractErrorPatterns(errorLogs) ==
    LET patterns == CountPatterns([c \in CategorySet |-> 0], errorLogs) IN
    [patterns |-> patterns,
     totalErrors |-> Len(errorLogs),
     mostCommon |-> ReduceEntries(patterns, Categories[1], 2)]

\* ------------------------------------------------ monitor: monitorFunctions
\* this.errorThreshold, parseInt(process.env.ERROR_THRESHOLD) || 5
ErrorThreshold == 5

\* What the signal source answers for one function in one monitorFunctions
\* run: whether the metric query succeeds and the sum of the Errors metric it
\* returns, and whether the log query succeeds and the lines it returns.
Signal(metricsOk, errorCount, logsOk, errorLogs) ==
    [metricsOk |-> metricsOk, errorCount |-> errorCount,
     logsOk |-> logsOk, errorLogs |-> errorLogs]

\* simulateKnowledgeAnalysis(errorPatterns).shouldFix: the table's entry for
\* mostCommon, nothing for a category without an entry
simulateKnowledgeAnalysis(errorPatterns) ==
    [shouldFix |-> errorPatterns.mostCommon \in
                      {"timeout", "memory", "import", "syntax", "runtime"},
     errorType |-> errorPatterns.mostCommon,
     errorCount |-> errorPatterns.totalErrors,
     confidence |-> IF errorPatterns.totalErrors > 10 THEN "high" ELSE "medium"]

\* analyzeAndGetFix(errorDetails), errorDetails being what getErrorLogs returned
analyzeAndGetFix(errorLogs) ==
    IF errorLogs = <<>>
    THEN [shouldFix |-> FALSE, errorType |-> "none", errorCount |-> 0,
          confidence |-> "none"]
    ELSE simulateKnowledgeAnalysis(extractErrorPatterns(errorLogs))

\* One iteration of monitorFunctions' loop, the entry it pushes.  A thrown
\* query ends in the catch with an entry that has no errorCount.  The fix the
\* monitor applies itself is simulated (console output only) and succeeds for
\* every solution the table can give.
MonitorIteration(functionName, signal) ==
    IF ~signal.metricsOk
    THEN [functionName |-> functionName, status |-> "error"]
    ELSE IF signal.errorCount > 0 /\ signal.errorCount >= ErrorThreshold
    THEN IF ~signal.logsOk
         THEN [functionName |-> functionName, status |-> "error"]
         ELSE [functionName |-> functionName,
               status |-> IF analyzeAndGetFix(signal.errorLogs).shouldFix
                          THEN "fixed" ELSE "analyzed",
               errorCount |-> signal.errorCount]
    ELSE [functionName |-> functionName, status |-> "healthy",
          errorCount |-> signal.errorCount]

\* monitorFunctions leaving its loop at the first failed query (no try/catch
\* inside the loop)
monitorFunctionsUntilFailure(functions, signals) ==
    LET all == [i \in 1..Len(functions) |-> MonitorIteration(functions[i], signals[i])]
        failed == {i \in 1..Len(functions) : all[i].status = "error"}
        first == IF failed = {} THEN Len(functions) + 1
                 ELSE CHOOSE i \in failed : \A j \in failed : i <= j IN
    SubSeq(all, 1, first - 1)

\* monitorFunctions(): one entry per configured function, in order
monitorFunctions(functions, signals) ==
    [i \in 1..Len(functions) |-> MonitorIteration(functions[i], signals[i])]

\* r.errorCount > 0, false for an entry without errorCount
HasErrorCount(r) == "errorCount" \in DOMAIN r /\ r.errorCount > 0

\* ------------------------------------------------- knowledge: the analysis
\* calculateConfidence with high from a ratio of 0.8 on (>= where the code has >)
calculateConfidenceFromRatio(totalErrors, specificErrors) ==
    IF totalErrors < 3 THEN "low"
    ELSE IF totalErrors < 10 THEN "medium"
    ELSE IF 5 * specificErrors >= 4 * totalErrors THEN "high"
    ELSE "medium"

\* calculateConfidence falling through to low (where the code has medium)
calculateConfidenceFallingLow(totalErrors, specificErrors) ==
    IF totalErrors < 3 THEN "low"
    ELSE IF totalErrors < 10 THEN "medium"
    ELSE IF 5 * specificErrors > 4 * totalErrors THEN "high"
    ELSE "low"

\* calculateConfidence(totalErrors, specificErrors).  The quotient of two
\* integers below 2^53 compares with 0.8 as the exact fraction does with 4/5:
\* distinct fractions with denominators this small are many ulps apart.
calculateConfidence(totalErrors, specificErrors) ==
    IF totalErrors < 3 THEN "low"
    ELSE IF totalErrors < 10 THEN "medium"
    ELSE IF 5 * specificErrors > 4 * totalErrors THEN "high"
    ELSE "medium"

AutoFixableTypes == {"timeout", "memory", "import", "syntax"}

\* shouldAutoFix's highConfidenceThreshold
HighConfidenceThreshold == 10

\* shouldAutoFix on the error type alone, whatever the number of errors
shouldAutoFixAnyCount(errorType, totalErrors) ==
    errorType \in AutoFixableTypes

\* shouldAutoFix(errorType, totalErrors)
shouldAutoFix(errorType, totalErrors) ==
    errorType \in AutoFixableTypes /\ totalErrors >= HighConfidenceThreshold

\* getFixPriority's table; priorities[errorType] || 5
BasePriority(errorType) ==
    CASE errorType = "syntax" -> 10
      [] errorType = "import" -> 9
      [] errorType = "permission" -> 8
      [] errorType = "runtime" -> 7
      [] errorType = "timeout" -> 6
      [] errorType = "memory" -> 5
      [] OTHER -> 5

\* Math.floor(x / 5) (where the code has Math.round)
RoundFifthsDown(x) == x \div 5

\* Math.round(x / 5) for an integer x >= 0: the nearest integer, halves upward
RoundFifths(x) == (2 * x + 5) \div 10

\* getFixPriority(errorType, totalErrors):
\* Math.min(Math.round(basePriority * Math.min(totalErrors / 5, 2)), 10).
\* basePriority * Math.min(totalErrors / 5, 2) is a multiple of 1/5, never
\* within rounding error of a half.
getFixPriority(errorType, totalErrors) ==
    LET basePriority == BasePriority(errorType)
        fifths == basePriority * (IF totalErrors < 10 THEN totalErrors ELSE 10)
        rounded == RoundFifths(fifths) IN
    IF rounded < 10 THEN rounded ELSE 10

\* getFallbackRecommendation(errorType, totalErrors)
getFallbackRecommendation(errorType, totalErrors) ==
    [errorType |-> errorType, errorCount |-> totalErrors, confidence |-> "low",
     shouldFix |-> FALSE, fixPriority |-> 5]

\* AWSKnowledgeIntegration.analyzeErrors(errorPatterns, errorLogs): the
\* analysis, or the fallback when a step of the analysis throws
knowledgeAnalyzeErrors(errorPatterns, throws) ==
    LET errorType == errorPatterns.mostCommon
        totalErrors == errorPatterns.totalErrors IN
    IF throws THEN getFallbackRecommendation(errorType, totalErrors)
    ELSE [errorType |-> errorType,
          errorCount |-> totalErrors,
          confidence |-> calculateConfidence(totalErrors, errorPatterns.patterns[errorType]),
          shouldFix |-> shouldAutoFix(errorType, totalErrors),
          fixPriority |-> getFixPriority(errorType, totalErrors)]

\* ------------------------------------------- orchestrator: cooldown table
\* a function without a cooldown entry
NoEntry == [attempts |-> 0, consecutiveFailures |-> 0, timestamp |-> -1]

\* no shouldAttemptFix call made yet
NoGate == [fn |-> 0, hadEntry |-> FALSE, failures |-> 0, elapsed |-> 0, ret |-> FALSE]

\* shouldAttemptFix with the stale-entry reset taken from 2 * fixCooldown on
\* (>= where the code has >)
shouldAttemptFixResetAtTwice(table, f, t) ==
    LET lastAttempt == table[f]
        timeSinceLastAttempt == t - lastAttempt.timestamp IN
    IF lastAttempt = NoEntry THEN [ret |-> TRUE, table |-> table]
    ELSE IF timeSinceLastAttempt < FixCooldown THEN [ret |-> FALSE, table |-> table]
    ELSE IF timeSinceLastAttempt >= FixCooldown * 2
         THEN [ret |-> TRUE, table |-> [table EXCEPT ![f] = NoEntry]]
    ELSE IF lastAttempt.consecutiveFailures >= CircuitLimit
         THEN [ret |-> FALSE, table |-> table]
    ELSE [ret |-> TRUE, table |-> table]

\* A gate that would admit a function whose entry is stale without removing
\* the entry.
shouldAttemptFixKeepStale(table, f, t) ==
    LET lastAttempt == table[f]
        timeSinceLastAttempt == t - lastAttempt.timestamp IN
    IF lastAttempt = NoEntry THEN [ret |-> TRUE, table |-> table]
    ELSE IF timeSinceLastAttempt < FixCooldown THEN [ret |-> FALSE, table |-> table]
    ELSE IF timeSinceLastAttempt > FixCooldown * 2 THEN [ret |-> TRUE, table |-> table]
    ELSE IF lastAttempt.consecutiveFailures >= CircuitLimit
         THEN [ret |-> FALSE, table |-> table]
    ELSE [ret |-> TRUE, table |-> table]

\* shouldAttemptFix(functionName) at time t: what it returns and the table it leaves
shouldAttemptFix(table, f, t) ==
    LET lastAttempt == table[f]
        timeSinceLastAttempt == t - lastAttempt.timestamp IN
    IF lastAttempt = NoEntry THEN [ret |-> TRUE, table |-> table]
    ELSE IF timeSinceLastAttempt < FixCooldown THEN [ret |-> FALSE, table |-> table]
    ELSE IF timeSinceLastAttempt > FixCooldown * 2
         THEN [ret |-> TRUE, table |-> [table EXCEPT ![f] = NoEntry]]
    ELSE IF lastAttempt.consecutiveFailures >= CircuitLimit
         THEN [ret |-> FALSE, table |-> table]
    ELSE [ret |-> TRUE, table |-> table]

\* what a shouldAttemptFix call saw and returned
GateRecord(table, f, t) ==
    [fn |-> f,
     hadEntry |-> table[f] # NoEntry,
     failures |-> table[f].consecutiveFailures,
     elapsed |-> IF table[f] = NoEntry THEN 0 ELSE t - table[f].timestamp,
     ret |-> shouldAttemptFix(table, f, t).ret]

\* recordFixAttempt(functionName) at time t
recordFixAttempt(table, f, t) ==
    [table EXCEPT ![f] = [attempts |-> table[f].attempts + 1,
                          consecutiveFailures |-> table[f].consecutiveFailures,
                          timestamp |-> t]]

\* recordFixResult(functionName, success)
recordFixResult(table, f, success) ==
    IF table[f] = NoEntry THEN table
    ELSE [table EXCEPT ![f].consecutiveFailures = IF success THEN 0 ELSE @ + 1]

\* array.slice(start, end) for 0 <= start <= end: the elements at the
\* zero-based positions start .. end - 1 that exist
Slice(array, start, end) ==
    SubSeq(array, start + 1, IF end < Len(array) THEN end ELSE Len(array))

\* chunkArray's loop from position i on: for (; i < array.length; i += chunkSize)
\* chunks.push(array.slice(i, i + chunkSize))
RECURSIVE chunkLoop(_, _, _, _)
chunkLoop(array, chunkSize, i, chunks) ==
    IF i < Len(array)
    THEN chunkLoop(array, chunkSize, i + chunkSize,
                   Append(chunks, Slice(array, i, i + chunkSize)))
    ELSE chunks

\* chunkArray keeping whole chunks only (a loop that stops when fewer than
\* chunkSize elements are left)
chunkArrayWholeChunks(array, chunkSize) ==
    chunkLoop(SubSeq(array, 1, Len(array) - (Len(array) % chunkSize)), chunkSize, 0, <<>>)

\* chunkArray(array, chunkSize), for chunkSize >= 1
chunkArray(array, chunkSize) ==
    chunkLoop(array, chunkSize, 0, <<>>)

\* ----------------------------------------------------- orchestrator: cycle
\* Date.now() advances.  The code reads the clock in shouldAttemptFix (during
\* analysis) and in recordFixAttempt (when a batch starts): time that passes
\* while a batch runs shows at the next of these points, and time that passes
\* between two cycles is added when the next cycle is entered.
Tick ==
    /\ now < MaxTime
    /\ opc \in {"idle", "analyze", "delay"}
    /\ now' = now + 1
    /\ UNCHANGED <<fixerVars, configVars, returned, fixAttempts, cycleVars, historyVars, lastGate>>

\* orchestrateErrorDetectionAndFixing is entered, elapsed ticks after the
\* previous cycle returned; monitorFunctions is awaited
EnterCycle(byHandler, elapsed) ==
    /\ now' = now + elapsed
    /\ opc' = "monitor"
    /\ pending' = <<>>
    /\ analysisResults' = <<>>
    /\ fixBatches' = <<>>
    /\ batchIdx' = 0
    /\ fixPromises' = <<>>
    /\ attempts' = <<>>
    /\ cycles' = Append(cycles, [byHandler |-> byHandler, at |-> now + elapsed])
    /\ prevStarted' = curStarted
    /\ curStarted' = {}
    /\ lastGate' = NoGate

\* a caller that keeps its LambdaErrorOrchestrator runs another cycle on it
Orchestrate ==
    /\ opc \in {"idle", "returned"}
    /\ Len(cycles) < MaxCycles
    /\ \E elapsed \in 0..(MaxTime - now) : EnterCycle(FALSE, elapsed)
    /\ UNCHANGED <<alias, latest, cfg, deploymentHistory, nCalls, configVars, returned,
                   fixAttempts>>

\* exports.handler: a new LambdaErrorOrchestrator (with a new LambdaAutoFixer)
\* is constructed for the invocation, then the cycle runs on it
handler ==
    /\ opc \in {"idle", "returned"}
    /\ Len(cycles) < MaxCycles
    /\ fixAttempts' = [f \in Functions |-> NoEntry]
    /\ deploymentHistory' = [f \in Functions |-> 0]
    /\ \E elapsed \in 0..(MaxTime - now) : EnterCycle(TRUE, elapsed)
    /\ UNCHANGED <<alias, latest, cfg, nCalls, configVars, returned>>

\* monitorFunctions returned, the signal source having answered signals[i] for
\* the i-th configured function; functionsWithErrors are the results with
\* errorCount > 0, and with none of them the summary is returned
MonitorFunctions(signalSet) ==
    /\ opc = "monitor"
    /\ \E signals \in [1..Len(functionsToMonitor) -> signalSet] :
          LET monitoringResults == monitorFunctions(functionsToMonitor, signals)
              functionsWithErrors == SelectSeq(monitoringResults, HasErrorCount) IN
          /\ returned' = <<[fn |-> "monitorFunctions",
                            args |-> [functions |-> functionsToMonitor,
                                      signals |-> signals],
                            ret |-> monitoringResults]>>
          /\ pending' = functionsWithErrors
          /\ opc' = IF functionsWithErrors = <<>> THEN "returned" ELSE "analyze"
    /\ UNCHANGED <<fixerVars, configVars, fixAttempts, now, analysisResults,
                   fixBatches, batchIdx, fixPromises, historyVars, lastGate>>

\* n log lines with the same matches
Repeat(line, n) == [i \in 1..n |-> line]

\* the knowledge analysis of an entry whose analysis failed (the entry has
\* analysisError and shouldFix false, and no knowledgeAnalysis)
NoAnalysis ==
    [errorType |-> "none", errorCount |-> 0, confidence |-> "none",
     shouldFix |-> FALSE, fixPriority |-> 0]

\* analyzeErrors, one iteration of its loop: getErrorLogs for the next function
\* either throws (an entry with analysisError), finds no recent error (the
\* function is skipped), or returns the error lines, which go through
\* extractErrorPatterns and the knowledge analysis; the analysis's shouldFix
\* is combined with the cooldown gate: knowledgeAnalysis.shouldFix &&
\* this.shouldAttemptFix(functionName).  After the last function the code goes
\* on to applyFixes without waiting.
analyzeErrors(outcome, errorLogs, throws) ==
    LET f == Head(pending).functionName
        gate == shouldAttemptFix(fixAttempts, f, now)
        knowledgeAnalysis ==
            IF outcome = "analysed"
            THEN knowledgeAnalyzeErrors(extractErrorPatterns(errorLogs), throws)
            ELSE NoAnalysis
        knowledgeShouldFix == knowledgeAnalysis.shouldFix
        entry == [functionName |-> f,
                  errorCount |-> Head(pending).errorCount,
                  idx |-> Len(analysisResults) + 1,
                  analysed |-> outcome = "analysed",
                  knowledgeAnalysis |-> knowledgeAnalysis,
                  shouldFix |-> outcome = "analysed" /\ knowledgeShouldFix /\ gate.ret,
                  inCooldown |-> /\ outcome = "analysed" /\ knowledgeShouldFix
                                 /\ fixAttempts[f] # NoEntry
                                 /\ now - fixAttempts[f].timestamp < FixCooldown] IN
    /\ opc = "analyze"
    /\ pending # <<>>
    /\ outcome = "analysed" => errorLogs # <<>>
    /\ pending' = Tail(pending)
    /\ opc' = IF Tail(pending) = <<>> THEN "applyFixes" ELSE "analyze"
    /\ analysisResults' = IF outcome = "noErrors" THEN analysisResults
                          ELSE Append(analysisResults, entry)
    /\ IF outcome = "analysed" /\ knowledgeShouldFix
       THEN /\ fixAttempts' = gate.table
            /\ lastGate' = GateRecord(fixAttempts, f, now)
       ELSE UNCHANGED <<fixAttempts, lastGate>>
    /\ UNCHANGED <<fixerVars, configVars, returned, now, fixBatches, batchIdx, fixPromises,
                   historyVars>>

\* the attempts a batch starts, one applyFixToFunction per entry: each records
\* the attempt in the cooldown table and calls fixer.applyFix with the
\* knowledge analysis, which carries no solution
RECURSIVE recordBatch(_, _, _)
recordBatch(table, batch, t) ==
    IF batch = <<>> THEN table
    ELSE recordBatch(recordFixAttempt(table, Head(batch).functionName, t), Tail(batch), t)

\* applyFixToFunction(analysisResult), entered with the cooldown table as the
\* attempts started before it in the same batch left it
applyFixToFunction(table, analysisResult) ==
    LET f == analysisResult.functionName IN
    [applyFix(FreeAttempt, f, "noSolution")
        EXCEPT !.entryIdx = analysisResult.idx,
               !.failuresBefore = table[f].consecutiveFailures,
               !.startedInCooldown = /\ table[f] # NoEntry
                                     /\ now - table[f].timestamp < FixCooldown]

StartBatch(batches, k) ==
    /\ batchIdx' = k
    /\ opc' = "batch"
    /\ fixAttempts' = recordBatch(fixAttempts, batches[k], now)
    /\ attempts' = [i \in 1..Len(batches[k]) |->
          applyFixToFunction(recordBatch(fixAttempts, SubSeq(batches[k], 1, i - 1), now),
                             batches[k][i])]
    /\ curStarted' = curStarted \cup
                       {batches[k][i].functionName : i \in 1..Len(batches[k])}

\* applyFixes up to the start of its first batch (or its return when auto-fix
\* is disabled or nothing is to fix)
applyFixes ==
    LET functionsToFix == SelectSeq(analysisResults, LAMBDA r : r.shouldFix)
        batches == chunkArray(functionsToFix, maxConcurrentFixes) IN
    /\ opc = "applyFixes"
    /\ IF enableAutoFix /\ functionsToFix # <<>>
       THEN /\ fixBatches' = batches
            /\ StartBatch(batches, 1)
            /\ UNCHANGED <<alias, latest, cfg, deploymentHistory, nCalls>>
       ELSE /\ opc' = "returned"
            /\ UNCHANGED <<fixerVars, fixAttempts, fixBatches, batchIdx, curStarted>>
    /\ UNCHANGED <<configVars, returned, now, pending, analysisResults, fixPromises,
                   cycles, prevStarted, lastGate>>

\* what applyFixToFunction resolves to for a finished attempt
FixOutcome(a) ==
    [functionName |-> a.fn, fixResult |-> a.result, settled |-> a.pc = "done",
     calls |-> a.calls, entryIdx |-> a.entryIdx, failuresBefore |-> a.failuresBefore,
     startedInCooldown |-> a.startedInCooldown]

\* applyFixes going on as soon as one attempt of the batch has returned
\* (Promise.race where the code has Promise.allSettled)
BatchSettledOnFirst ==
    /\ opc = "batch"
    /\ \E s \in DOMAIN attempts : attempts[s].pc = "done"
    /\ fixPromises' = fixPromises \o [s \in DOMAIN attempts |-> FixOutcome(attempts[s])]
    /\ attempts' = <<>>
    /\ opc' = IF batchIdx < Len(fixBatches) THEN "delay" ELSE "returned"
    /\ UNCHANGED <<alias, latest, cfg, deploymentHistory, nCalls, configVars, returned,
                   fixAttempts, now, pending, analysisResults, fixBatches, batchIdx,
                   historyVars, lastGate>>

\* applyFixes thrown out of by a failed attempt, the batches left not run
\* (Promise.all over attempts that reject, where the code has
\* Promise.allSettled over attempts that catch their errors)
BatchSettledAbortOnFailure ==
    /\ opc = "batch"
    /\ \A s \in DOMAIN attempts : attempts[s].pc = "done"
    /\ fixPromises' = fixPromises \o [s \in DOMAIN attempts |-> FixOutcome(attempts[s])]
    /\ attempts' = <<>>
    /\ opc' = IF \E s \in DOMAIN attempts : ~attempts[s].result.success THEN "thrown"
              ELSE IF batchIdx < Len(fixBatches) THEN "delay" ELSE "returned"
    /\ UNCHANGED <<alias, latest, cfg, deploymentHistory, nCalls, configVars, returned,
                   fixAttempts, now, pending, analysisResults, fixBatches, batchIdx,
                   historyVars, lastGate>>

\* Promise.allSettled of the running batch resolves: every attempt of the batch
\* has returned.  With batches left the 2 s delay starts, otherwise the results
\* are processed and the summary is returned.
BatchSettled ==
    /\ opc = "batch"
    /\ \A s \in DOMAIN attempts : attempts[s].pc = "done"
    /\ fixPromises' = fixPromises \o [s \in DOMAIN attempts |-> FixOutcome(attempts[s])]
    /\ attempts' = <<>>
    /\ opc' = IF batchIdx < Len(fixBatches) THEN "delay" ELSE "returned"
    /\ UNCHANGED <<alias, latest, cfg, deploymentHistory, nCalls, configVars, returned,
                   fixAttempts, now, pending, analysisResults, fixBatches, batchIdx,
                   historyVars, lastGate>>

\* the delay between batches is over: the next batch starts
NextBatch ==
    /\ opc = "delay"
    /\ StartBatch(fixBatches, batchIdx + 1)
    /\ UNCHANGED <<alias, latest, cfg, deploymentHistory, nCalls, configVars, returned, now,
                   pending, analysisResults, fixBatches, fixPromises, cycles,
                   prevStarted, lastGate>>

\* fixResults as orchestrateErrorDetectionAndFixing hands them to
\* generateSummary once the cycle is through: what applyFixToFunction resolved
\* to for every attempt (applyFixes), or with auto-fix disabled one
\* recommendation_only entry per analysis result
FixResults ==
    IF enableAutoFix
    THEN [i \in DOMAIN fixPromises |->
            [functionName |-> fixPromises[i].functionName,
             fixType |-> analysisResults[fixPromises[i].entryIdx].knowledgeAnalysis.errorType,
             fixResult |-> fixPromises[i].fixResult]]
    ELSE [i \in DOMAIN analysisResults |->
            [functionName |-> analysisResults[i].functionName,
             status |-> "recommendation_only",
             autoFixDisabled |-> TRUE]]

\* this.stats after construction (the counters applyFixes touches)
NoStats == [totalFixes |-> 0, successfulFixes |-> 0, failedFixes |-> 0, rollbacks |-> 0]

\* applyFixes' result processing for one fulfilled promise: value.success and
\* value.rolledBack are read on the object applyFixToFunction returned; a
\* property the object does not have is undefined, which counts as false
countFixResult(stats, value) ==
    LET counted == [stats EXCEPT !.totalFixes = @ + 1] IN
    IF "success" \in DOMAIN value /\ value.success
    THEN [counted EXCEPT !.successfulFixes = @ + 1]
    ELSE [counted EXCEPT !.failedFixes = @ + 1,
                         !.rollbacks = IF "rolledBack" \in DOMAIN value /\ value.rolledBack
                                       THEN @ + 1 ELSE @]

RECURSIVE processResults(_, _)
processResults(stats, values) ==
    IF values = <<>> THEN stats
    ELSE processResults(countFixResult(stats, Head(values)), Tail(values))

\* this.stats of a new orchestrator after its cycle (read when it has
\* returned): applyFixes is called only with auto-fix enabled
Stats == IF enableAutoFix THEN processResults(NoStats, FixResults) ELSE NoStats

\* one entry of the summary's fixes list: functionName, fixType, what
\* result.fixResult?. gives for success, version and rolledBack, and
\* result.error; a property that is undefined is left out
SummaryFix(result) ==
    LET withFixResult ==
            IF "fixResult" \in DOMAIN result
            THEN [functionName |-> result.functionName,
                  fixType |-> result.fixType,
                  success |-> result.fixResult.success,
                  version |-> result.fixResult.version,
                  rolledBack |-> result.fixResult.rolledBack]
            ELSE [functionName |-> result.functionName] IN
    IF "error" \in DOMAIN result
    THEN [k \in DOMAIN withFixResult \cup {"error"} |->
            IF k = "error" THEN result.error ELSE withFixResult[k]]
    ELSE withFixResult

\* generateSummary(monitoringResults, analysisResults, fixResults)
generateSummary(monitoringResults, analysed, fixResults) ==
    [success |-> TRUE,
     monitoring |->
        [healthy |-> SelectSeq(monitoringResults, LAMBDA r : r.status = "healthy"),
         withErrors |-> SelectSeq(monitoringResults, HasErrorCount),
         errors |-> SelectSeq(monitoringResults, LAMBDA r : r.status = "error")],
     analysis |-> [i \in DOMAIN analysed |->
        [functionName |-> analysed[i].functionName,
         errorType |-> analysed[i].knowledgeAnalysis.errorType,
         confidence |-> analysed[i].knowledgeAnalysis.confidence,
         shouldFix |-> analysed[i].shouldFix,
         errorCount |-> analysed[i].errorCount]],
     fixes |-> [i \in DOMAIN fixResults |-> SummaryFix(fixResults[i])]]

\* what orchestrateErrorDetectionAndFixing returns (read when it has returned)
Summary == generateSummary(returned[1].ret, analysisResults, FixResults)

\* the configured function lists: names may repeat
FunctionLists ==
    UNION {[1..n -> Functions] : n \in 1..MaxListLen}

InitOrchestrator ==
    /\ functionsToMonitor \in FunctionLists
    /\ maxConcurrentFixes \in 1..MaxConcurrent
    /\ enableAutoFix \in BOOLEAN
    /\ enableRollback \in BOOLEAN
    /\ fixAttempts = [f \in Functions |-> NoEntry]
    /\ now = 0
    /\ opc = "idle"
    /\ pending = <<>>
    /\ analysisResults = <<>>
    /\ fixBatches = <<>>
    /\ batchIdx = 0
    /\ fixPromises = <<>>
    /\ cycles = <<>>
    /\ prevStarted = {}
    /\ curStarted = {}
    /\ lastGate = NoGate
    /\ returned = <<>>

\* --------------------------------------- the fixer driven by direct calls
\* An outside caller invokes applyFix on one LambdaAutoFixer instance.
ApplyFixCall(s, f, kind) ==
    /\ nCalls < MaxCalls
    /\ ~InFlight(attempts[s])
    /\ attempts' = [attempts EXCEPT ![s] = applyFix(FreeAttempt, f, kind)]
    /\ nCalls' = nCalls + 1
    /\ UNCHANGED <<alias, latest, cfg, deploymentHistory>>
    /\ UNCHANGED orchVars

InitControlPlane ==
    /\ alias = [f \in Functions |-> 1]
    /\ latest = [f \in Functions |-> 1]
    /\ cfg = [f \in Functions |-> {}]

\* no orchestrator runs: its state stays as constructed
InitOrchestratorUnused ==
    /\ functionsToMonitor = <<>>
    /\ maxConcurrentFixes = 1
    /\ enableAutoFix = FALSE
    /\ enableRollback = FALSE
    /\ fixAttempts = [f \in Functions |-> NoEntry]
    /\ now = 0
    /\ opc = "idle"
    /\ pending = <<>>
    /\ analysisResults = <<>>
    /\ fixBatches = <<>>
    /\ batchIdx = 0
    /\ fixPromises = <<>>
    /\ cycles = <<>>
    /\ prevStarted = {}
    /\ curStarted = {}
    /\ lastGate = NoGate
    /\ returned = <<>>

InitFixer ==
    /\ InitControlPlane
    /\ deploymentHistory = [f \in Functions |-> 0]
    /\ attempts = [s \in 1..MaxInFlight |-> FreeAttempt]
    /\ nCalls = 0
    /\ InitOrchestratorUnused

NextFixer ==
    \/ \E s \in DOMAIN attempts, f \in Functions, kind \in SolutionTypes :
          ApplyFixCall(s, f, kind)
    \/ FixerStep

SpecFixer == InitFixer /\ [][NextFixer]_vars

\* The same calls on a fixer that has a second applyFix in flight while the
\* first has not returned, as in a batch of the orchestrator: the attempts
\* share the fixer's deploymentHistory.
InitFixerOverlap ==
    /\ InitControlPlane
    /\ deploymentHistory = [f \in Functions |-> 0]
    /\ attempts = [s \in 1..MaxOverlap |-> FreeAttempt]
    /\ nCalls = 0
    /\ InitOrchestratorUnused

SpecFixerOverlap == InitFixerOverlap /\ [][NextFixer]_vars

\* Timeout fixes for one function, one after or beside the other on the same
\* fixer: MaxSameCalls applyFix calls, at most MaxOverlap of them in flight.
ApplyFixCallSame(s) ==
    /\ nCalls < MaxSameCalls
    /\ ~InFlight(attempts[s])
    /\ attempts' = [attempts EXCEPT ![s] = applyFix(FreeAttempt, 1, "updateTimeout")]
    /\ nCalls' = nCalls + 1
    /\ UNCHANGED <<alias, latest, cfg, deploymentHistory>>
    /\ UNCHANGED orchVars

NextFixerSame ==
    \/ \E s \in DOMAIN attempts : ApplyFixCallSame(s)
    \/ FixerStep

SpecFixerSame == InitFixerOverlap /\ [][NextFixerSame]_vars

\* --------------------------------------------- the orchestrator's cycles
Init ==
    /\ InitControlPlane
    /\ deploymentHistory = [f \in Functions |-> 0]
    /\ attempts = <<>>
    /\ nCalls = 0
    /\ InitOrchestrator

\* The orchestrator hands applyFix its knowledge analysis (part_002:229), which
\* has no solution field (part_001:92-101): executeFix throws on solution.type
\* as soon as the snapshot is stored, so of FixerStep an attempt started by the
\* orchestrator takes only the snapshot steps and the catch branch's rollback.
CycleStepOver(logs, signalSet) ==
    \/ MonitorFunctions(signalSet)
    \/ \E outcome \in {"logsFail", "noErrors"} : analyzeErrors(outcome, <<>>, FALSE)
    \/ \E errorLogs \in logs, throws \in BOOLEAN :
          analyzeErrors("analysed", errorLogs, throws)
    \/ applyFixes
    \/ FixerStep
    \/ BatchSettled
    \/ NextBatch

\* the error lines getErrorLogs returns in these cycles: MaxSamples lines, each
\* matching the timeout pattern only (the analysis asks for a fix unless it
\* falls back)
CycleLogs == {Repeat({"timeout"}, MaxSamples)}

\* What the signal source can answer for a function: the metric query fails;
\* no error; errors below the threshold; errors at the threshold with the log
\* query failing, returning no event, returning timeout lines, or returning
\* permission lines.
MonitorSignals ==
    {Signal(FALSE, 0, TRUE, <<>>),
     Signal(TRUE, 0, TRUE, <<>>),
     Signal(TRUE, ErrorThreshold - 1, TRUE, <<>>),
     Signal(TRUE, ErrorThreshold, FALSE, <<>>),
     Signal(TRUE, ErrorThreshold, TRUE, <<>>),
     Signal(TRUE, ErrorThreshold, TRUE, Repeat({"timeout"}, MaxSamples)),
     Signal(TRUE, MaxSamples, TRUE, Repeat({"permission"}, MaxSamples))}

\* what the signal source answers in these cycles: no error, or errors at
\* the threshold with the lines of CycleLogs
CycleSignals ==
    {Signal(TRUE, 0, TRUE, <<>>)}
        \cup {Signal(TRUE, ErrorThreshold, TRUE, errorLogs) : errorLogs \in CycleLogs}

CycleStep == CycleStepOver(CycleLogs, CycleSignals)

Next ==
    \/ Orchestrate
    \/ handler
    \/ Tick
    \/ CycleStep

Spec == Init /\ [][Next]_vars

\* One cycle on a new orchestrator, run to its end: every awaited call is
\* answered and every timer fires, so a cycle that has work to do goes on.
\* The cooldown table is empty until the first batch starts, after the last
\* clock reading of shouldAttemptFix: the cycle runs the same way at whatever
\* pace the clock advances, and the clock is left at the orchestrator's
\* construction.
FirstCycle == cycles = <<>> /\ now' = now /\ Orchestrate

NextOneCycle ==
    \/ FirstCycle
    \/ CycleStep

SpecOneCycle == Init /\ [][NextOneCycle]_vars

FairSpec == SpecOneCycle /\ WF_vars(CycleStep)

\* --------------------------------------- one cycle over varied signals
\* One cycle on a new orchestrator, the signal source answering for each
\* function in any of the ways of MonitorSignals.
NextSignals ==
    \/ FirstCycle
    \/ CycleStepOver(CycleLogs, MonitorSignals)

SpecSignals == Init /\ [][NextSignals]_vars

\* ------------------------------------- cycles over varied error samples
\* Cycles on one orchestrator, auto-fix enabled and one fix at a time, for
\* functions whose error lines vary from one reading to the next: samples of
\* one kind of line below, at and above the auto-fix threshold, for
\* auto-fixable categories and for the others; a sample at the threshold in
\* which only eight lines of ten match a pattern; and a sample of lines
\* matching two patterns at once.  The clock advances between cycles.
SampleBatches ==
    {Repeat({"timeout"}, MaxSamples),
     Repeat({"memory"}, HighConfidenceThreshold),
     Repeat({"syntax"}, HighConfidenceThreshold - 1),
     Repeat({"import"}, 2),
     Repeat({"permission"}, MaxSamples),
     Repeat({"runtime"}, HighConfidenceThreshold),
     Repeat({}, MaxSamples),
     Repeat({"timeout"}, 8) \o Repeat({}, 2),
     Repeat({"timeout", "permission"}, HighConfidenceThreshold)}

InitAnalysis ==
    /\ Init
    /\ functionsToMonitor \in {<<1>>, <<1, 2>>}
    /\ maxConcurrentFixes = 1
    /\ enableAutoFix

NextAnalysis ==
    \/ Orchestrate
    \/ CycleStepOver(SampleBatches, CycleSignals)

SpecAnalysis == InitAnalysis /\ [][NextAnalysis]_vars

\* ------------------------------------- the cooldown table driven by calls
\* The table's methods called from outside on one orchestrator, in any order.
\* An entry is read and written under its own key only: the calls name one of
\* two functions, which is enough for entries to stand side by side.
GateFunctions == {f \in Functions : f <= 2}

ShouldAttemptFixCall(f) ==
    /\ fixAttempts' = shouldAttemptFix(fixAttempts, f, now).table
    /\ lastGate' = GateRecord(fixAttempts, f, now)
    /\ UNCHANGED <<fixerVars, configVars, returned, now, cycleVars, historyVars>>

RecordFixAttemptCall(f) ==
    /\ fixAttempts[f].attempts < MaxAttempts
    /\ fixAttempts' = recordFixAttempt(fixAttempts, f, now)
    /\ UNCHANGED <<fixerVars, configVars, returned, now, cycleVars, historyVars, lastGate>>

RecordFixResultCall(f, success) ==
    /\ fixAttempts[f].consecutiveFailures < MaxFailures
    /\ fixAttempts' = recordFixResult(fixAttempts, f, success)
    /\ UNCHANGED <<fixerVars, configVars, returned, now, cycleVars, historyVars, lastGate>>

InitGate ==
    /\ InitControlPlane
    /\ deploymentHistory = [f \in Functions |-> 0]
    /\ attempts = <<>>
    /\ nCalls = 0
    /\ InitOrchestratorUnused

NextGate ==
    \/ \E f \in GateFunctions : ShouldAttemptFixCall(f)
    \/ \E f \in GateFunctions : RecordFixAttemptCall(f)
    \/ \E f \in GateFunctions, success \in BOOLEAN : RecordFixResultCall(f, success)
    \/ Tick

SpecGate == InitGate /\ [][NextGate]_vars

\* ------------------------------------- the classifier driven by one call
\* everything but the record of pure calls
stateVars == <<fixerVars, configVars, fixAttempts, now, cycleVars, historyVars, lastGate>>

\* the sequences of at most MaxLogLen log lines
ErrorLogs == UNION {[1..n -> LogLines] : n \in 0..MaxLogLen}

\* monitor.extractErrorPatterns(errorLogs) called from outside
ExtractErrorPatternsCall(errorLogs) ==
    /\ returned = <<>>
    /\ returned' = <<[fn |-> "extractErrorPatterns", args |-> errorLogs,
                      ret |-> extractErrorPatterns(errorLogs)]>>
    /\ UNCHANGED stateVars

NextClassifier ==
    \E errorLogs \in ErrorLogs : ExtractErrorPatternsCall(errorLogs)

SpecClassifier == InitGate /\ [][NextClassifier]_vars

\* ------------------------------ the knowledge functions driven by two calls
\* knowledge.calculateConfidence(totalErrors, specificErrors) called from
\* outside, with specificErrors the count of one category among totalErrors
CalculateConfidenceCall(totalErrors, specificErrors) ==
    /\ Len(returned) < 2
    /\ returned' = Append(returned,
          [fn |-> "calculateConfidence",
           args |-> [totalErrors |-> totalErrors, specificErrors |-> specificErrors],
           ret |-> calculateConfidence(totalErrors, specificErrors)])
    /\ UNCHANGED stateVars

\* knowledge.getFixPriority(errorType, totalErrors) called from outside
GetFixPriorityCall(errorType, totalErrors) ==
    /\ Len(returned) < 2
    /\ returned' = Append(returned,
          [fn |-> "getFixPriority",
           args |-> [errorType |-> errorType, totalErrors |-> totalErrors],
           ret |-> getFixPriority(errorType, totalErrors)])
    /\ UNCHANGED stateVars

NextKnowledge ==
    \/ \E totalErrors \in 0..MaxSamples, specificErrors \in 0..MaxSamples :
          /\ specificErrors <= totalErrors
          /\ CalculateConfidenceCall(totalErrors, specificErrors)
    \/ \E errorType \in CategorySet, totalErrors \in 0..MaxSamples :
          GetFixPriorityCall(errorType, totalErrors)

SpecKnowledge == InitGate /\ [][NextKnowledge]_vars

\* -------------------------------------- monitorFunctions driven by one call
\* MONITOR_FUNCTIONS split at the commas: names may repeat, and without the
\* variable the list is empty
MonitorLists == UNION {[1..n -> Functions] : n \in 0..MaxListLen}

\* monitor.monitorFunctions() called from outside on a monitor configured
\* with the list
MonitorFunctionsCall(functions, signals) ==
    /\ returned = <<>>
    /\ returned' = <<[fn |-> "monitorFunctions",
                      args |-> [functions |-> functions, signals |-> signals],
                      ret |-> monitorFunctions(functions, signals)]>>
    /\ UNCHANGED stateVars

NextMonitor ==
    \E functions \in MonitorLists :
        \E signals \in [1..Len(functions) -> MonitorSignals] :
            MonitorFunctionsCall(functions, signals)

SpecMonitor == InitGate /\ [][NextMonitor]_vars

\* ------------------------------------------- chunkArray driven by one call
\* the lists of at most MaxChunkInput analysis results (named by function)
\* and the concurrency limits from 1 to MaxChunkSize
ChunkInputs == UNION {[1..n -> Functions] : n \in 0..MaxChunkInput}

\* orchestrator.chunkArray(array, chunkSize) called from outside
ChunkArrayCall(array, chunkSize) ==
    /\ returned = <<>>
    /\ returned' = <<[fn |-> "chunkArray",
                      args |-> [array |-> array, chunkSize |-> chunkSize],
                      ret |-> chunkArray(array, chunkSize)]>>
    /\ UNCHANGED stateVars

NextChunk ==
    \E array \in ChunkInputs, chunkSize \in 1..MaxChunkSize :
        ChunkArrayCall(array, chunkSize)

SpecChunk == InitGate /\ [][NextChunk]_vars

\* ================================================================ properties
\* ---------------------------------------------------------------------- C1
\* C1: when applyFix has ended with success, the PROD alias points at the
\* version published during that attempt; when it has ended reporting a
\* rollback, the PROD alias points at the version it had when the attempt's
\* snapshot was taken (the version it had when applyFix was called, if no
\* snapshot was taken).  One attempt runs at a time.
C1_AliasMatchesOutcome ==
    \A s \in DOMAIN attempts :
        LET a == attempts[s] IN
        a.pc = "done" =>
            /\ a.result.success =>
                  /\ a.result.version = a.ver
                  /\ alias[a.fn] = a.ver
            /\ a.result.rolledBack =>
                  alias[a.fn] = (IF a.snap # 0 THEN a.snap ELSE a.startAlias)

\* a timeout fix whose result says rolledBack while the alias stays on the
\* version the attempt published
C1_RolledBackOnNewVersion ==
    \E s \in DOMAIN attempts :
        LET a == attempts[s] IN
        /\ a.pc = "done"
        /\ a.kind = "updateTimeout"
        /\ a.result.rolledBack
        /\ a.ver # 0
        /\ a.ver # a.snap
        /\ alias[a.fn] = a.ver

\* ---------------------------------------------------------------------- C2
\* C2: an attempt whose rollback updateAlias failed, and none of whose rollback
\* updateAlias calls succeeded, does not return rolledBack = true.
C2_FailedRollbackNotRolledBack ==
    \A s \in DOMAIN attempts :
        LET a == attempts[s]
            rollbacks == {i \in DOMAIN a.calls : a.calls[i].step = "rollback"} IN
        /\ a.pc = "done"
        /\ rollbacks # {}
        /\ \A i \in rollbacks : ~a.calls[i].ok
        => ~a.result.rolledBack

\* an attempt that returned rolledBack = true after both of its rollback
\* calls failed
C2_RolledBackAfterFailedRollbacks ==
    \E s \in DOMAIN attempts :
        LET a == attempts[s]
            rollbacks == {i \in DOMAIN a.calls : a.calls[i].step = "rollback"} IN
        /\ a.pc = "done"
        /\ Cardinality(rollbacks) = 2
        /\ \A i \in rollbacks : ~a.calls[i].ok
        /\ a.result.rolledBack

\* ---------------------------------------------------------------------- C3
\* C3: an attempt whose snapshot (getCurrentFunctionState) failed issues no
\* mutating control-plane call and does not end with success, whatever earlier
\* attempts on the same fixer left in deploymentHistory.
C3_FailedSnapshotMutatesNothing ==
    \A s \in DOMAIN attempts :
        LET a == attempts[s] IN
        (\E i \in DOMAIN a.calls : a.calls[i].step = "snapshot" /\ ~a.calls[i].ok) =>
            /\ \A i \in DOMAIN a.calls : a.calls[i].op \notin MutatingOps
            /\ a.pc = "done" => ~a.result.success

\* an attempt whose first snapshot call failed and which then moved the PROD
\* alias off the version it had when applyFix was called
C3_FailedSnapshotMovedAlias ==
    \E s \in DOMAIN attempts :
        LET a == attempts[s] IN
        /\ a.pc = "done"
        /\ Len(a.calls) = 2
        /\ a.calls[1].step = "snapshot" /\ ~a.calls[1].ok
        /\ a.calls[2].op = "updateAlias" /\ a.calls[2].ok
        /\ alias[a.fn] # a.startAlias

\* ---------------------------------------------------------------------- C4
\* C4: at most one fix attempt is in flight for any one function name.
C4_OneInFlightPerFunction ==
    \A s, u \in DOMAIN attempts :
        /\ s # u
        /\ InFlight(attempts[s])
        /\ InFlight(attempts[u])
        => attempts[s].fn # attempts[u].fn

\* ---------------------------------------------------------------------- C5
\* C5: batches run one after another and never more than maxConcurrentFixes
\* attempts are in flight: attempts are in flight only while a batch runs;
\* the attempts of the running batch are the next maxConcurrentFixes (or
\* fewer, at the end) functions to fix; and every function to fix before them
\* has a terminal result in fixPromises.
C5_BatchesSequential ==
    LET functionsToFix == SelectSeq(analysisResults, LAMBDA r : r.shouldFix)
        done == (batchIdx - 1) * maxConcurrentFixes IN
    /\ Cardinality({s \in DOMAIN attempts : InFlight(attempts[s])}) <= maxConcurrentFixes
    /\ (\E s \in DOMAIN attempts : InFlight(attempts[s])) => opc = "batch"
    /\ \A i \in DOMAIN fixPromises :
          /\ fixPromises[i].settled
          /\ fixPromises[i].entryIdx = functionsToFix[i].idx
    /\ opc = "batch" =>
          /\ Len(fixPromises) = done
          /\ Len(attempts) >= 1
          /\ Len(attempts) <= maxConcurrentFixes
          /\ done + Len(attempts) <= Len(functionsToFix)
          /\ \/ Len(attempts) = maxConcurrentFixes
             \/ done + Len(attempts) = Len(functionsToFix)
          /\ \A s \in DOMAIN attempts :
                attempts[s].entryIdx = functionsToFix[done + s].idx

\* the second batch runs, the first batch's attempt having returned
C5_SecondBatchRunning ==
    /\ opc = "batch"
    /\ batchIdx = 2
    /\ Len(fixPromises) = 1
    /\ fixPromises[1].settled
    /\ \E s \in DOMAIN attempts : InFlight(attempts[s])

\* ---------------------------------------------------------------------- C6
\* C6: whichever attempts fail, and at whatever step, a cycle that has started
\* a batch goes on to return its summary with a terminal result for every
\* function to fix.
C6_IsolatedFailure ==
    (opc = "batch") ~>
        LET functionsToFix == SelectSeq(analysisResults, LAMBDA r : r.shouldFix) IN
        /\ opc = "returned"
        /\ Len(fixPromises) = Len(functionsToFix)
        /\ \A i \in DOMAIN fixPromises :
              /\ fixPromises[i].settled
              /\ fixPromises[i].entryIdx = functionsToFix[i].idx

\* the cycle returned after the first batch's attempt failed at its first call
\* and the second batch's attempt failed at its rollback
C6_ReturnedAfterFailures ==
    /\ opc = "returned"
    /\ batchIdx = 2
    /\ Len(fixPromises) = 2
    /\ Len(fixPromises[1].calls) = 1
    /\ ~fixPromises[1].calls[1].ok
    /\ fixPromises[2].settled
    /\ \E i \in DOMAIN fixPromises[2].calls :
          /\ fixPromises[2].calls[i].step = "rollback"
          /\ ~fixPromises[2].calls[i].ok

\* ---------------------------------------------------------------------- C7
\* C7: for an entry with consecutiveFailures >= 3, shouldAttemptFix returns
\* true exactly when the time since the entry's timestamp exceeds
\* 2 * fixCooldown.
C7_CircuitBreaker ==
    /\ lastGate.hadEntry
    /\ lastGate.failures >= CircuitLimit
    => (lastGate.ret <=> lastGate.elapsed > 2 * FixCooldown)

\* the gate refused a function with three failures exactly 2 * fixCooldown
\* after its last attempt
C7_RefusedAtTwiceCooldown ==
    /\ lastGate.hadEntry
    /\ lastGate.failures >= CircuitLimit
    /\ lastGate.elapsed = 2 * FixCooldown
    /\ ~lastGate.ret

\* ---------------------------------------------------------------------- C8
\* C8: when a cycle has returned, the cooldown entry of every function it
\* attempted (once) records the result: consecutiveFailures is 0 after a
\* success and one more than before the attempt after a failure.
C8_ResultRecorded ==
    opc = "returned" =>
        \A i \in DOMAIN fixPromises :
            LET r == fixPromises[i] IN
            Cardinality({j \in DOMAIN fixPromises :
                            fixPromises[j].functionName = r.functionName}) = 1
            => fixAttempts[r.functionName].consecutiveFailures =
                  (IF r.fixResult.success THEN 0 ELSE r.failuresBefore + 1)

\* ---------------------------------------------------------------------- C9
\* C9: the gate returns false for a function whose entry is younger than
\* fixCooldown and true for a function with no entry, and no attempt is
\* started for a function while its entry is younger than fixCooldown.
C9_CooldownGate ==
    /\ lastGate.hadEntry /\ lastGate.elapsed < FixCooldown => ~lastGate.ret
    /\ lastGate.fn # 0 /\ ~lastGate.hadEntry => lastGate.ret
    /\ \A s \in DOMAIN attempts : ~attempts[s].startedInCooldown
    /\ \A i \in DOMAIN fixPromises : ~fixPromises[i].startedInCooldown

\* --------------------------------------------------------------------- C10
\* C10: of two consecutive handler invocations, the second one over less than
\* fixCooldown after the first began, the second starts no attempt for a
\* function the first started an attempt for.
C10_TableCarriedForward ==
    LET n == Len(cycles) IN
    /\ n >= 2
    /\ cycles[n].byHandler
    /\ cycles[n - 1].byHandler
    /\ now - cycles[n - 1].at < FixCooldown
    => curStarted \cap prevStarted = {}

\* --------------------------------------------------------------------- C11
\* C11: a function with no cooldown entry whose MaxSamples error lines all
\* match the timeout pattern is classified as timeout with confidence high and
\* admitted; its attempt, every control-plane call of which succeeded, ends
\* with success true on a newly published version.
C11_ScenarioACommitted ==
    \A i \in DOMAIN fixPromises :
        LET p == fixPromises[i]
            r == analysisResults[p.entryIdx] IN
        (/\ r.shouldFix
         /\ r.knowledgeAnalysis.errorType = "timeout"
         /\ r.knowledgeAnalysis.confidence = "high"
         /\ \A k \in DOMAIN p.calls : p.calls[k].ok)
            => /\ p.fixResult.success
               /\ \E k \in DOMAIN p.calls : p.calls[k].op = "publishVersion"

\* the scenario ran: classified as timeout with confidence high, admitted with
\* auto-fix enabled, every call answered, and the attempt ended without success
\* and without a configuration update
C11_ScenarioAFailed ==
    /\ opc = "returned"
    /\ enableAutoFix
    /\ \E i \in DOMAIN fixPromises :
        LET p == fixPromises[i]
            r == analysisResults[p.entryIdx] IN
        /\ r.shouldFix
        /\ r.knowledgeAnalysis.errorType = "timeout"
        /\ r.knowledgeAnalysis.errorCount = MaxSamples
        /\ r.knowledgeAnalysis.confidence = "high"
        /\ ~p.startedInCooldown
        /\ \A k \in DOMAIN p.calls : p.calls[k].ok
        /\ ~p.fixResult.success
        /\ \A k \in DOMAIN p.calls : p.calls[k].op # "updateFunctionConfiguration"

\* --------------------------------------------------------------------- C12
\* C12: once verifyFix has not confirmed the fix (a read failed, or the value
\* read differs from the expected one), the attempt issues an updateAlias
\* pointing PROD at the snapshot's version (the call is awaited, or it has been
\* answered), and the attempt does not end with success.
C12_FailedVerificationRollsBack ==
    \A s \in DOMAIN attempts :
        LET a == attempts[s] IN
        a.verified = "failed" =>
            /\ a.snap # 0
            /\ \/ a.pc = "rollback"
               \/ /\ a.pc \in {"catchRollback", "done"}
                  /\ \E i \in DOMAIN a.calls :
                        /\ a.calls[i].op = "updateAlias"
                        /\ a.calls[i].step = "rollback"
                        /\ a.calls[i].version = a.snap
            /\ a.pc = "done" => ~a.result.success

\* both verification reads were answered, the value read was not the expected
\* one, and the rollback put PROD back on the snapshot's version
C12_MismatchRolledBack ==
    \E s \in DOMAIN attempts :
        LET a == attempts[s] IN
        /\ a.pc = "done"
        /\ a.verified = "failed"
        /\ \A i \in DOMAIN a.calls : a.calls[i].ok
        /\ \E i \in DOMAIN a.calls : a.calls[i].step = "rollback"
        /\ a.ver # a.snap
        /\ alias[a.fn] = a.snap

\* --------------------------------------------------------------------- C13
\* C13: within one attempt at most one publishVersion call is issued and at
\* most one updateAlias call names a version published in the attempt.
C13_AtMostOneCommit ==
    \A s \in DOMAIN attempts :
        LET a == attempts[s]
            published == {i \in DOMAIN a.calls : a.calls[i].op = "publishVersion"}
            pointed == {i \in DOMAIN a.calls :
                           /\ a.calls[i].op = "updateAlias"
                           /\ a.ver # 0
                           /\ a.calls[i].version = a.ver} IN
        /\ Cardinality(published) + (IF a.pc = "publish" THEN 1 ELSE 0) <= 1
        /\ Cardinality(pointed) + (IF a.pc = "setAlias" THEN 1 ELSE 0) <= 1
        /\ \A i \in DOMAIN a.calls :
              a.calls[i].step = "alias" => a.calls[i].version = a.ver /\ a.ver # 0

\* an attempt pointed PROD at the version it published, failed verification
\* and its rollback call, and in its catch branch pointed PROD at that version
\* again: the deploymentHistory entry it read there was the snapshot of a
\* second attempt for the same function, taken after the first one's commit
C13_PointedTwice ==
    \E s \in DOMAIN attempts :
        LET a == attempts[s] IN
        /\ a.pc = "done"
        /\ a.ver # 0
        /\ a.ver # a.snap
        /\ \E i, j \in DOMAIN a.calls :
              /\ i < j
              /\ a.calls[i].step = "alias" /\ a.calls[i].ok
              /\ a.calls[j].step = "rollback" /\ a.calls[j].ok
              /\ a.calls[i].version = a.ver
              /\ a.calls[j].version = a.ver
        /\ alias[a.fn] = a.ver
        /\ ~a.result.success

\* --------------------------------------------------------------------- C14
\* C14: every attempt started by a cycle is for an entry whose dominant
\* category is auto-fixable and whose sample count is at least the auto-fix
\* threshold; its confidence is not low, and its category is neither other nor
\* permission.
C14_AdmissionNeedsAutoFixable ==
    LET Admitted(idx) ==
            LET k == analysisResults[idx].knowledgeAnalysis IN
            /\ k.errorType \in {"timeout", "memory", "import", "syntax"}
            /\ k.errorCount >= 10
            /\ k.confidence \in {"medium", "high"}
            /\ k.errorType \notin {"other", "permission"} IN
    /\ \A s \in DOMAIN attempts : Admitted(attempts[s].entryIdx)
    /\ \A i \in DOMAIN fixPromises : Admitted(fixPromises[i].entryIdx)

\* a second cycle on the same orchestrator, entered after the cooldown of the
\* first cycle's attempt ran out, analysed a sample of permission lines above
\* the threshold (confidence high, the cooldown gate open) and started nothing
C14_PermissionNotAttempted ==
    /\ opc = "returned"
    /\ Len(cycles) = 2
    /\ \E f \in Functions : fixAttempts[f] # NoEntry
    /\ analysisResults # <<>>
    /\ \A i \in DOMAIN analysisResults :
          LET k == analysisResults[i].knowledgeAnalysis IN
          /\ k.errorType = "permission"
          /\ k.errorCount >= 10
          /\ k.confidence = "high"
          /\ shouldAttemptFix(fixAttempts, analysisResults[i].functionName, now).ret
    /\ fixPromises = <<>>
    /\ enableAutoFix

\* --------------------------------------------------------------------- C15
\* C15: extractErrorPatterns counts every line under exactly one category, the
\* first in the declared order that the line matches, or other when it matches
\* none; the counts sum to the number of lines, which is totalErrors.
C15_OneCounterPerLine ==
    \A k \in DOMAIN returned :
        returned[k].fn = "extractErrorPatterns" =>
            LET errorLogs == returned[k].args
                ret == returned[k].ret
                Matching(line) == {i \in DOMAIN Categories : Categories[i] \in line}
                First(line) ==
                    IF Matching(line) = {} THEN "other"
                    ELSE Categories[CHOOSE i \in Matching(line) :
                                        \A j \in Matching(line) : i <= j] IN
            /\ \A c \in CategorySet :
                  ret.patterns[c] =
                      Cardinality({i \in DOMAIN errorLogs : First(errorLogs[i]) = c})
            /\ ret.patterns["timeout"] + ret.patterns["memory"]
                  + ret.patterns["permission"] + ret.patterns["import"]
                  + ret.patterns["syntax"] + ret.patterns["runtime"]
                  + ret.patterns["other"] = Len(errorLogs)
            /\ ret.totalErrors = Len(errorLogs)

\* a line matching the timeout and the memory keywords and a line matching
\* none were counted: one timeout, one other
C15_TwoLinesCounted ==
    \E k \in DOMAIN returned :
        /\ returned[k].fn = "extractErrorPatterns"
        /\ returned[k].args = <<{"timeout", "memory"}, {}>>
        /\ returned[k].ret.patterns["timeout"] = 1
        /\ returned[k].ret.patterns["memory"] = 0
        /\ returned[k].ret.patterns["other"] = 1

\* --------------------------------------------------------------------- C16
\* C16: for a non-empty sequence of lines, the dominant category (mostCommon)
\* has the largest count, and no category declared before it has the same
\* count.
C16_DominantFirstOfMaximal ==
    \A k \in DOMAIN returned :
        returned[k].fn = "extractErrorPatterns" /\ returned[k].args # <<>> =>
            LET patterns == returned[k].ret.patterns
                mostCommon == returned[k].ret.mostCommon IN
            /\ \A c \in CategorySet : patterns[c] <= patterns[mostCommon]
            /\ \A i, j \in DOMAIN Categories :
                  Categories[j] = mostCommon /\ i < j
                  => patterns[Categories[i]] < patterns[mostCommon]

\* one timeout line and one memory line: memory is returned as dominant
C16_LaterOfTiedWins ==
    \E k \in DOMAIN returned :
        /\ returned[k].fn = "extractErrorPatterns"
        /\ returned[k].args = <<{"timeout"}, {"memory"}>>
        /\ returned[k].ret.mostCommon = "memory"

\* --------------------------------------------------------------------- C17
\* C17: for an empty sequence of lines extractErrorPatterns returns every
\* count zero, totalErrors zero and the dominant category other.
C17_EmptyInput ==
    \A k \in DOMAIN returned :
        returned[k].fn = "extractErrorPatterns" /\ returned[k].args = <<>> =>
            /\ \A c \in CategorySet : returned[k].ret.patterns[c] = 0
            /\ returned[k].ret.totalErrors = 0
            /\ returned[k].ret.mostCommon = "other"

\* extractErrorPatterns was called with no line
C17_CalledWithNoLine ==
    \E k \in DOMAIN returned :
        /\ returned[k].fn = "extractErrorPatterns"
        /\ returned[k].args = <<>>
        /\ returned[k].ret.mostCommon = "other"

\* --------------------------------------------------------------------- C18
\* C18: calculateConfidence(total, specific), for specific <= total, is low
\* when total < 3, medium when 3 <= total < 10, and for total >= 10 high
\* exactly when specific / total > 0.8, medium otherwise.
C18_ConfidenceTable ==
    \A k \in DOMAIN returned :
        returned[k].fn = "calculateConfidence" =>
            LET total == returned[k].args.totalErrors
                specific == returned[k].args.specificErrors
                ret == returned[k].ret IN
            /\ total < 3 => ret = "low"
            /\ 3 <= total /\ total < 10 => ret = "medium"
            /\ total >= 10 =>
                  /\ ret \in {"high", "medium"}
                  /\ ret = "high" <=> 5 * specific > 4 * total

\* 8 of 10 (a ratio of exactly 0.8) gave medium
C18_EightOfTen ==
    \E k \in DOMAIN returned :
        /\ returned[k].fn = "calculateConfidence"
        /\ returned[k].args.totalErrors = 10
        /\ returned[k].args.specificErrors = 8
        /\ returned[k].ret = "medium"

\* --------------------------------------------------------------------- C19
\* C19: of two calculateConfidence calls with the same ratio specific / total,
\* a ratio of at least 0.8, the call with the larger total does not return a
\* lower confidence (low < medium < high).
C19_MonotonicInTotal ==
    LET Rank(confidence) ==
            CASE confidence = "low" -> 1
              [] confidence = "medium" -> 2
              [] confidence = "high" -> 3 IN
    /\ Len(returned) = 2
    /\ returned[1].fn = "calculateConfidence"
    /\ returned[2].fn = "calculateConfidence"
    /\ returned[1].args.totalErrors >= 1
    /\ returned[1].args.totalErrors <= returned[2].args.totalErrors
    /\ returned[1].args.specificErrors * returned[2].args.totalErrors
          = returned[2].args.specificErrors * returned[1].args.totalErrors
    /\ 5 * returned[1].args.specificErrors >= 4 * returned[1].args.totalErrors
    => Rank(returned[1].ret) <= Rank(returned[2].ret)

\* 5 of 5 gave medium and, at the same ratio, 10 of 10 gave high
C19_SameRatioLargerTotal ==
    /\ Len(returned) = 2
    /\ returned[1].fn = "calculateConfidence"
    /\ returned[2].fn = "calculateConfidence"
    /\ returned[1].args = [totalErrors |-> 5, specificErrors |-> 5]
    /\ returned[2].args = [totalErrors |-> 10, specificErrors |-> 10]
    /\ returned[1].ret = "medium"
    /\ returned[2].ret = "high"

\* --------------------------------------------------------------------- C20
\* C20 as stated: for total >= 1, getFixPriority is the base priority times
\* min(total / 5, 2), capped at 10, and is an integer in 1..10.
C20_ScaledAndCapped ==
    \A k \in DOMAIN returned :
        returned[k].fn = "getFixPriority" /\ returned[k].args.totalErrors >= 1 =>
            LET total == returned[k].args.totalErrors
                fifths == BasePriority(returned[k].args.errorType)
                              * (IF total < 10 THEN total ELSE 10)
                ret == returned[k].ret IN
            /\ 5 * ret = (IF fifths < 50 THEN fifths ELSE 50)
            /\ ret \in 1..10

\* C20 amended: getFixPriority is the base priority times min(total / 5, 2),
\* rounded to the nearest integer and then capped at 10; for total >= 1 it is
\* an integer in 1..10.
C20_ScaledRoundedAndCapped ==
    \A k \in DOMAIN returned :
        returned[k].fn = "getFixPriority" =>
            LET total == returned[k].args.totalErrors
                fifths == BasePriority(returned[k].args.errorType)
                              * (IF total < 10 THEN total ELSE 10)
                ret == returned[k].ret IN
            /\ ret \in 0..10
            /\ total >= 1 => ret \in 1..10
            /\ IF 2 * fifths >= 95 THEN ret = 10
               ELSE 10 * ret - 5 <= 2 * fifths /\ 2 * fifths < 10 * ret + 5

\* timeout with 3 samples: 6 * 0.6 = 3.6 gave priority 4
C20_RoundedUp ==
    \E k \in DOMAIN returned :
        /\ returned[k].fn = "getFixPriority"
        /\ returned[k].args = [errorType |-> "timeout", totalErrors |-> 3]
        /\ returned[k].ret = 4

\* --------------------------------------------------------------------- C21
\* C21: chunkArray(array, c) with c >= 1 returns ceil(n / c) chunks for an
\* array of n elements, none empty, all but the last of exactly c elements,
\* which put one after the other in order are the array.
C21_ChunksPartitionInOrder ==
    \A i \in DOMAIN returned :
        returned[i].fn = "chunkArray" =>
            LET array == returned[i].args.array
                c == returned[i].args.chunkSize
                chunks == returned[i].ret
                n == Len(array) IN
            /\ Len(chunks) * c >= n
            /\ (Len(chunks) - 1) * c < n
            /\ \A k \in DOMAIN chunks :
                  /\ Len(chunks[k]) >= 1
                  /\ k < Len(chunks) => Len(chunks[k]) = c
                  /\ \A j \in DOMAIN chunks[k] :
                        /\ (k - 1) * c + j <= n
                        /\ chunks[k][j] = array[(k - 1) * c + j]
            /\ n > 0 => (Len(chunks) - 1) * c + Len(chunks[Len(chunks)]) = n

\* five results chunked by two: chunks of two, two and one
C21_FiveByTwo ==
    \E i \in DOMAIN returned :
        /\ returned[i].fn = "chunkArray"
        /\ returned[i].args.array = <<1, 2, 2, 1, 2>>
        /\ returned[i].args.chunkSize = 2
        /\ returned[i].ret = << <<1, 2>>, <<2, 1>>, <<2>> >>

\* --------------------------------------------------------------------- C22
\* C22: monitorFunctions returns one entry per configured function, in the
\* configured order; the entry of a function whose metric query or log query
\* failed has status error, and the entries of the other functions have
\* another status.
C22_OneEntryPerFunction ==
    \A i \in DOMAIN returned :
        returned[i].fn = "monitorFunctions" =>
            LET functions == returned[i].args.functions
                signals == returned[i].args.signals
                results == returned[i].ret IN
            /\ Len(results) = Len(functions)
            /\ \A k \in DOMAIN results :
                  /\ results[k].functionName = functions[k]
                  /\ results[k].status = "error" <=>
                        \/ ~signals[k].metricsOk
                        \/ /\ signals[k].errorCount >= ErrorThreshold
                           /\ ~signals[k].logsOk

\* the metric query failed for the first of two functions, and the second,
\* after it, was found with errors and went through the monitor's own analysis
C22_FailureThenAnalysed ==
    \E i \in DOMAIN returned :
        /\ returned[i].fn = "monitorFunctions"
        /\ Len(returned[i].args.functions) = 2
        /\ ~returned[i].args.signals[1].metricsOk
        /\ Len(returned[i].ret) = 2
        /\ returned[i].ret[1].status = "error"
        /\ returned[i].ret[2].status = "fixed"

\* --------------------------------------------------------------------- C23
\* C23: a cycle in which the signal source failed for every configured
\* function does not return a summary with success true.
C23_OutageReportedAsFailure ==
    (/\ opc = "returned"
     /\ functionsToMonitor # <<>>
     /\ \A k \in DOMAIN returned[1].ret : returned[1].ret[k].status = "error")
        => ~Summary.success

\* the metric query failed for each of two functions and the cycle returned a
\* summary with success true, its errors list holding both, nothing analysed
C23_OutageReportedAsSuccess ==
    /\ opc = "returned"
    /\ Len(functionsToMonitor) = 2
    /\ \A k \in DOMAIN returned[1].args.signals : ~returned[1].args.signals[k].metricsOk
    /\ Summary.success
    /\ Len(Summary.monitoring.errors) = 2
    /\ Summary.analysis = <<>>

\* --------------------------------------------------------------------- C24
\* C24: every attempt's entry in the summary's fixes list whose outcome is not
\* success has an error string, and the string is not empty.
C24_FailedFixHasReason ==
    (opc = "returned" /\ enableAutoFix) =>
        \A i \in DOMAIN Summary.fixes :
            LET fix == Summary.fixes[i] IN
            ~("success" \in DOMAIN fix /\ fix.success) =>
                "error" \in DOMAIN fix /\ fix.error # ""

\* an attempt failed with a reason in its fixResult, and its entry in the
\* summary's fixes list has success false and no error
C24_FailedFixWithoutReason ==
    /\ opc = "returned"
    /\ enableAutoFix
    /\ \E i \in DOMAIN Summary.fixes :
          /\ ~Summary.fixes[i].success
          /\ fixPromises[i].fixResult.error # ""
          /\ "error" \notin DOMAIN Summary.fixes[i]

\* --------------------------------------------------------------------- C29
\* C29: every function that is analysed, and every function an attempt is
\* started for, had an error count of at least errorThreshold in the cycle's
\* monitoring.
C29_ThresholdGatesAnalysis ==
    /\ \A i \in DOMAIN pending : pending[i].errorCount >= ErrorThreshold
    /\ \A i \in DOMAIN analysisResults : analysisResults[i].errorCount >= ErrorThreshold
    /\ \A s \in DOMAIN attempts :
          analysisResults[attempts[s].entryIdx].errorCount >= ErrorThreshold

\* a function the monitor found healthy, with errors below the threshold, was
\* analysed and had an attempt started for it
C29_AttemptBelowThreshold ==
    \E i \in DOMAIN fixPromises :
        LET r == analysisResults[fixPromises[i].entryIdx] IN
        /\ r.errorCount > 0
        /\ r.errorCount < ErrorThreshold
        /\ r.analysed
        /\ \E k \in DOMAIN returned[1].ret :
              /\ returned[1].ret[k].functionName = r.functionName
              /\ returned[1].ret[k].status = "healthy"
        /\ fixPromises[i].calls # <<>>

\* --------------------------------------------------------------------- C27
\* C27: with enableRollback false no attempt issues a rollback updateAlias
\* call.
C27_RollbackDisabled ==
    ~enableRollback =>
        /\ \A s \in DOMAIN attempts :
              /\ attempts[s].pc # "catchRollback"
              /\ \A k \in DOMAIN attempts[s].calls :
                    attempts[s].calls[k].step # "rollback"
        /\ \A i \in DOMAIN fixPromises :
              \A k \in DOMAIN fixPromises[i].calls :
                    fixPromises[i].calls[k].step # "rollback"

\* with enableRollback false an attempt issued a rollback updateAlias, which
\* succeeded, and reported rolledBack
C27_RolledBackWhileDisabled ==
    /\ ~enableRollback
    /\ opc = "returned"
    /\ \E i \in DOMAIN fixPromises :
          /\ fixPromises[i].fixResult.rolledBack
          /\ \E k \in DOMAIN fixPromises[i].calls :
                /\ fixPromises[i].calls[k].op = "updateAlias"
                /\ fixPromises[i].calls[k].step = "rollback"
                /\ fixPromises[i].calls[k].ok

\* --------------------------------------------------------------------- C25
\* C25: a function whose analysis asked for a fix and which the eligibility
\* gate rejected has no attempt in that cycle (so no control-plane call is
\* made for it) and no entry in the summary's fixes list, and it is in the
\* summary's analysis list with shouldFix false.
C25_RejectedNotAttempted ==
    \A i \in DOMAIN analysisResults :
        LET r == analysisResults[i] IN
        (r.knowledgeAnalysis.shouldFix /\ ~r.shouldFix) =>
            /\ \A s \in DOMAIN attempts : attempts[s].fn # r.functionName
            /\ \A j \in DOMAIN fixPromises :
                  fixPromises[j].functionName # r.functionName
            /\ opc = "returned" =>
                  /\ \A j \in DOMAIN Summary.fixes :
                        Summary.fixes[j].functionName # r.functionName
                  /\ \E j \in DOMAIN Summary.analysis :
                        /\ Summary.analysis[j].functionName = r.functionName
                        /\ ~Summary.analysis[j].shouldFix

\* a function listed twice was rejected at its first analysis, its cooldown
\* ran out before the second, and the cycle made control-plane calls for it
C25_RejectedAndAttempted ==
    /\ opc = "returned"
    /\ \E i, k \in DOMAIN analysisResults :
          /\ i < k
          /\ analysisResults[i].functionName = analysisResults[k].functionName
          /\ analysisResults[i].inCooldown
          /\ ~analysisResults[i].shouldFix
          /\ analysisResults[k].shouldFix
          /\ \E j \in DOMAIN fixPromises :
                /\ fixPromises[j].entryIdx = k
                /\ fixPromises[j].calls # <<>>

\* --------------------------------------------------------------------- C26
\* C26: the fixAttempts entry of a function is never created or modified in
\* a step that leaves an attempt for that function in flight.
C26_EntryWrittenAfterTermination ==
    [][\A f \in Functions :
          (fixAttempts'[f] # fixAttempts[f] /\ fixAttempts'[f] # NoEntry) =>
              ~\E s \in DOMAIN attempts' :
                    attempts'[s].fn = f /\ InFlight(attempts'[s])]_vars

\* an attempt that has made no call yet, its function's entry already written
\* with this attempt counted and the start time as timestamp
C26_EntryWrittenAtStart ==
    \E s \in DOMAIN attempts :
        /\ InFlight(attempts[s])
        /\ attempts[s].calls = <<>>
        /\ fixAttempts[attempts[s].fn].attempts = 1
        /\ fixAttempts[attempts[s].fn].timestamp = now

\* --------------------------------------------------------------------- C28
\* C28: with enableAutoFix false a cycle starts no attempt, changes nothing on
\* the control plane, leaves the fixAttempts table as it was, and its summary
\* reports every analysed function with status recommendation_only.
C28_AutoFixDisabled ==
    ~enableAutoFix =>
        /\ attempts = <<>>
        /\ fixPromises = <<>>
        /\ alias = [f \in Functions |-> 1]
        /\ latest = [f \in Functions |-> 1]
        /\ cfg = [f \in Functions |-> {}]
        /\ fixAttempts = [f \in Functions |-> NoEntry]
        /\ opc = "returned" =>
              /\ Len(Summary.fixes) = Len(analysisResults)
              /\ \A i \in DOMAIN analysisResults :
                    /\ Summary.fixes[i].functionName = analysisResults[i].functionName
                    /\ "status" \in DOMAIN Summary.fixes[i]
                    /\ Summary.fixes[i].status = "recommendation_only"

\* with enableAutoFix false a function whose analysis asked for a fix was
\* given a recommendation_only result, nothing was started or changed, and
\* its entry in the summary's fixes list is its name alone
C28_StatusNotInSummary ==
    /\ ~enableAutoFix
    /\ opc = "returned"
    /\ attempts = <<>> /\ fixPromises = <<>>
    /\ fixAttempts = [f \in Functions |-> NoEntry]
    /\ \E i \in DOMAIN analysisResults :
          /\ analysisResults[i].shouldFix
          /\ FixResults[i].status = "recommendation_only"
          /\ DOMAIN Summary.fixes[i] = {"functionName"}

\* --------------------------------------------------------------------- C30
\* C30: a function whose dominant category is runtime, with at least the
\* auto-fix threshold of samples, an analysis that did not fall back and no
\* cooldown entry, is admitted for a fix attempt.
C30_RuntimeAdmitted ==
    \A i \in DOMAIN analysisResults :
        LET r == analysisResults[i] IN
        (/\ r.analysed
         /\ r.knowledgeAnalysis.errorType = "runtime"
         /\ r.knowledgeAnalysis.errorCount >= HighConfidenceThreshold
         /\ r.knowledgeAnalysis.confidence # "low"
         /\ Len(cycles) = 1) => r.shouldFix

\* in the first cycle of an orchestrator a sample of runtime lines at the
\* threshold was analysed with confidence high and not admitted, and the cycle
\* returned without an attempt
C30_RuntimeNotAdmitted ==
    /\ opc = "returned"
    /\ Len(cycles) = 1
    /\ fixPromises = <<>>
    /\ \E i \in DOMAIN analysisResults :
          LET r == analysisResults[i] IN
          /\ r.knowledgeAnalysis.errorType = "runtime"
          /\ r.knowledgeAnalysis.errorCount >= HighConfidenceThreshold
          /\ r.knowledgeAnalysis.confidence = "high"
          /\ fixAttempts[r.functionName] = NoEntry
          /\ ~r.shouldFix

\* --------------------------------------------------------------------- C31
\* C31: the calls an attempt makes on its way forward come in the order
\* snapshot reads, apply, publishVersion, updateAlias to the new version,
\* verification reads; a forward call is issued only if every call before it
\* succeeded; an apply, publish or alias call has both snapshot reads,
\* successful, before it; and no mutating call comes before a successful
\* snapshot read.
C31_StepsInOrder ==
    \A s \in DOMAIN attempts :
        LET calls == attempts[s].calls
            Rank(step) == CASE step = "snapshot" -> 1
                            [] step = "apply" -> 2
                            [] step = "publish" -> 3
                            [] step = "alias" -> 4
                            [] step = "verify" -> 5
                            [] OTHER -> 6 IN
        /\ \A i, j \in DOMAIN calls :
              (i < j /\ calls[j].step # "rollback") =>
                  /\ Rank(calls[i].step) <= Rank(calls[j].step)
                  /\ calls[i].ok
        /\ \A j \in DOMAIN calls :
              calls[j].step \in {"apply", "publish", "alias"} =>
                  /\ j > 2
                  /\ calls[1] = Call("getFunction", "snapshot", 0, TRUE)
                  /\ calls[2] = Call("getAlias", "snapshot", 0, TRUE)
        /\ \A i, j \in DOMAIN calls :
              (i < j /\ calls[j].step = "snapshot" /\ calls[j].ok) =>
                  calls[i].op \notin MutatingOps
        /\ \A j \in DOMAIN calls :
              /\ calls[j].step = "publish" =>
                    calls[j - 1].op \in {"updateFunctionConfiguration", "updateFunctionCode"}
              /\ calls[j].step = "alias" => calls[j - 1].op = "publishVersion"
              /\ calls[j].step = "verify" =>
                    \E i \in 1..(j - 1) : calls[i].step = "alias" /\ calls[i].ok

\* a code fix went through every step: two snapshot reads, the code read and
\* the update, the publish, the alias update and two verification reads
C31_AllStepsTaken ==
    \E s \in DOMAIN attempts :
        LET a == attempts[s] IN
        /\ a.pc = "done"
        /\ a.kind \in CodeKinds
        /\ a.result.success
        /\ [i \in DOMAIN a.calls |-> a.calls[i].step] =
              <<"snapshot", "snapshot", "apply", "apply", "publish", "alias",
                "verify", "verify">>

\* --------------------------------------------------------------------- C32
\* C32: when an apply, publish or alias call of an attempt fails after its
\* snapshot was captured, the attempt's next call is an updateAlias pointing
\* PROD at the snapshot's version (so that PROD is on the version the attempt
\* found when the call succeeds), and the attempt does not end with success.
C32_FailedStepRestoresSnapshot ==
    \A s \in DOMAIN attempts :
        LET a == attempts[s] IN
        \A i \in DOMAIN a.calls :
            (/\ a.calls[i].step \in {"apply", "publish", "alias"}
             /\ ~a.calls[i].ok) =>
                /\ a.snap # 0
                /\ IF i = Len(a.calls)
                   THEN a.pc = "catchRollback" /\ a.rbTarget = a.snap
                   ELSE /\ i + 1 = Len(a.calls)
                        /\ a.calls[i + 1].op = "updateAlias"
                        /\ a.calls[i + 1].step = "rollback"
                        /\ a.calls[i + 1].version = a.snap
                        /\ a.pc = "done"
                /\ a.pc = "done" => ~a.result.success

\* an attempt whose snapshot saw one version failed at a later step, and its
\* restore call, which succeeded, put PROD on another version: the one a
\* later attempt for the same function had stored as its snapshot
C32_RestoredToOtherSnapshot ==
    \E s \in DOMAIN attempts :
        LET a == attempts[s] IN
        /\ a.pc = "done"
        /\ \E i \in DOMAIN a.calls :
              /\ a.calls[i].step \in {"apply", "publish", "alias"}
              /\ ~a.calls[i].ok
              /\ i < Len(a.calls)
              /\ a.calls[i + 1].step = "rollback"
              /\ a.calls[i + 1].ok
              /\ a.calls[i + 1].version # a.snap
              /\ alias[a.fn] = a.calls[i + 1].version

\* --------------------------------------------------------------------- C33
\* C33: within one attempt the rollback updateAlias call is issued at most
\* once, also when verification fails and the first rollback call fails: a
\* failed rollback is not tried again.
C33_RollbackAtMostOnce ==
    \A s \in DOMAIN attempts :
        LET a == attempts[s]
            issued == {i \in DOMAIN a.calls : a.calls[i].step = "rollback"}
        IN  /\ Cardinality(issued) <= 1
            /\ a.pc \in {"rollback", "catchRollback"} => issued = {}

\* verification failed, the rollback call failed, and the attempt issued the
\* rollback call a second time before it returned
C33_RollbackIssuedTwice ==
    \E s \in DOMAIN attempts :
        LET a == attempts[s] IN
        /\ a.pc = "done"
        /\ a.verified = "failed"
        /\ \E i, j \in DOMAIN a.calls :
              /\ i < j
              /\ a.calls[i].step = "rollback" /\ ~a.calls[i].ok
              /\ a.calls[j].step = "rollback"
              /\ a.calls[j].op = "updateAlias"

\* --------------------------------------------------------------------- C34
\* C34: the snapshot lives for one attempt. After an attempt returned success
\* the fixer stores no snapshot for its function, and every rollback call of
\* an attempt names the version in the snapshot that this attempt captured.
C34_SnapshotLivesOneAttempt ==
    \A s \in DOMAIN attempts :
        LET a == attempts[s] IN
        /\ (a.pc = "done" /\ a.result.success) => deploymentHistory[a.fn] = 0
        /\ \A i \in DOMAIN a.calls :
              a.calls[i].step = "rollback" =>
                  a.snap # 0 /\ a.calls[i].version = a.snap

\* an attempt returned success and the fixer still stores the snapshot it
\* captured: the version PROD was on before the attempt
C34_SnapshotKeptAfterCommit ==
    \E s \in DOMAIN attempts :
        LET a == attempts[s] IN
        /\ a.pc = "done"
        /\ a.result.success
        /\ a.snap # 0
        /\ deploymentHistory[a.fn] = a.snap
        /\ alias[a.fn] # a.snap

\* --------------------------------------------------------------------- C35
\* C35: every recommendation that analysis marks shouldFix carries an action
\* that executeFix dispatches to a handler: no admitted attempt ends with the
\* "Unknown fix type" failure, and none fails for want of an action, that is,
\* an attempt whose snapshot succeeded reaches its apply step.
C35_AdmittedFixIsDispatched ==
    \A i \in DOMAIN fixPromises :
        LET p == fixPromises[i] IN
        (/\ enableAutoFix
         /\ p.settled
         /\ analysisResults[p.entryIdx].shouldFix) =>
            /\ p.fixResult.error \notin
                   {"Unknown fix type", "Cannot read properties of undefined"}
            /\ (\E k \in DOMAIN p.calls : p.calls[k].step = "snapshot" /\ ~p.calls[k].ok)
               \/ (\E k \in DOMAIN p.calls : p.calls[k].step = "apply")

\* an admitted attempt for an auto-fixable category took its snapshot without
\* a failure and then ended on the missing action, with no apply call issued
C35_AdmittedFixWithoutAction ==
    /\ enableAutoFix
    /\ \E i \in DOMAIN fixPromises :
        LET p == fixPromises[i]
            r == analysisResults[p.entryIdx] IN
        /\ p.settled
        /\ r.shouldFix
        /\ r.knowledgeAnalysis.errorType \in AutoFixableTypes
        /\ \A k \in DOMAIN p.calls : p.calls[k].step = "snapshot" => p.calls[k].ok
        /\ \A k \in DOMAIN p.calls : p.calls[k].step # "apply"
        /\ p.fixResult.error = "Cannot read properties of undefined"

\* --------------------------------------------------------------------- C36
\* C36: attempts on different functions do not interfere. When the attempts
\* the fixer has run are for pairwise distinct function names, each attempt,
\* however its steps interleave with the others', behaves as it does alone:
\* its snapshot holds the version it found, its rollback calls name that
\* version, it returns success exactly when its verification passed, and when
\* it has returned PROD is on the version of its last successful updateAlias
\* call, or on the version it found if it has none.
C36_DistinctFunctionsIndependent ==
    LET started == {s \in DOMAIN attempts : attempts[s].pc # "free"} IN
    (/\ Cardinality(started) = nCalls
     /\ \A s, t \in started : s # t => attempts[s].fn # attempts[t].fn) =>
        \A s \in started :
            LET a == attempts[s]
                moved == {i \in DOMAIN a.calls :
                             a.calls[i].op = "updateAlias" /\ a.calls[i].ok}
                last == CHOOSE i \in moved : \A j \in moved : j <= i
            IN  /\ a.snap \in {0, a.startAlias}
                /\ deploymentHistory[a.fn] = a.snap
                /\ \A i \in DOMAIN a.calls :
                      a.calls[i].step = "rollback" =>
                          a.snap # 0 /\ a.calls[i].version = a.snap
                /\ a.pc = "done" =>
                      /\ a.result.success <=> a.verified = "passed"
                      /\ alias[a.fn] = IF moved = {} THEN a.startAlias
                                       ELSE a.calls[last].version

\* two attempts for different functions overlapped and both returned: one
\* committed a new version, the other failed and rolled back
C36_OverlappedOnTwoFunctions ==
    \E s, t \in DOMAIN attempts :
        /\ attempts[s].pc = "done" /\ attempts[t].pc = "done"
        /\ attempts[s].fn # attempts[t].fn
        /\ attempts[s].result.success
        /\ alias[attempts[s].fn] # attempts[s].startAlias
        /\ ~attempts[t].result.success
        /\ \E i \in DOMAIN attempts[t].calls :
              attempts[t].calls[i].step = "rollback" /\ attempts[t].calls[i].ok
        /\ alias[attempts[t].fn] = attempts[t].startAlias

\* --------------------------------------------------------------------- C37
\* C37: a shouldAttemptFix call leaves the fixAttempts table as it is, except
\* that when the function has an entry and more than 2 * fixCooldown has
\* passed since its timestamp the call removes that function's entry and no
\* other, so that the next recordFixAttempt starts at attempts = 1 and
\* consecutiveFailures = 0; at exactly 2 * fixCooldown the entry is kept.
C37_GateFrame ==
    [][\A f \in GateFunctions :
          ShouldAttemptFixCall(f) =>
              IF /\ fixAttempts[f] # NoEntry
                 /\ now - fixAttempts[f].timestamp > 2 * FixCooldown
              THEN /\ fixAttempts' = [fixAttempts EXCEPT ![f] = NoEntry]
                   /\ recordFixAttempt(fixAttempts', f, now)[f].attempts = 1
                   /\ recordFixAttempt(fixAttempts', f, now)[f].consecutiveFailures = 0
              ELSE fixAttempts' = fixAttempts]_vars

\* a function with failures on record was asked about after more than twice
\* the cooldown, and the attempt recorded next started from a new entry
C37_StaleEntryRemoved ==
    /\ lastGate # NoGate
    /\ lastGate.hadEntry
    /\ lastGate.failures > 0
    /\ lastGate.elapsed > 2 * FixCooldown
    /\ lastGate.ret
    /\ fixAttempts[lastGate.fn].attempts = 1
    /\ fixAttempts[lastGate.fn].consecutiveFailures = 0
    /\ fixAttempts[lastGate.fn].timestamp = now

\* --------------------------------------------------------------------- C38
\* C38: after applyFixes the running counters agree with the attempt results:
\* successfulFixes counts the attempts whose fixer result was success,
\* rollbacks those whose fixer result was rolledBack, and totalFixes is
\* successfulFixes + failedFixes.
C38_StatsAgreeWithResults ==
    (opc = "returned" /\ enableAutoFix) =>
        /\ Stats.successfulFixes =
              Cardinality({i \in DOMAIN fixPromises : fixPromises[i].fixResult.success})
        /\ Stats.rollbacks =
              Cardinality({i \in DOMAIN fixPromises : fixPromises[i].fixResult.rolledBack})
        /\ Stats.totalFixes = Stats.successfulFixes + Stats.failedFixes

\* a cycle returned in which the fixer rolled an attempt back and reported
\* so, and the rollbacks counter is still zero
C38_RollbackNotCounted ==
    /\ opc = "returned"
    /\ enableAutoFix
    /\ \E i \in DOMAIN fixPromises :
          /\ fixPromises[i].fixResult.rolledBack
          /\ \E k \in DOMAIN fixPromises[i].calls :
                fixPromises[i].calls[k].step = "rollback" /\ fixPromises[i].calls[k].ok
    /\ Stats.totalFixes = Len(fixPromises)
    /\ Stats.failedFixes = Len(fixPromises)
    /\ Stats.rollbacks = 0

\* --------------------------------------------------------------------- C39
\* C39: in every summary the monitoring groups are disjoint: no function is
\* listed both under monitoring.healthy and under monitoring.withErrors.
C39_MonitoringGroupsDisjoint ==
    opc = "returned" =>
        \A i \in DOMAIN Summary.monitoring.healthy :
            \A j \in DOMAIN Summary.monitoring.withErrors :
                Summary.monitoring.healthy[i].functionName #
                    Summary.monitoring.withErrors[j].functionName

\* a function with errors below the threshold, which the monitor reported
\* healthy, is in both groups of the summary
C39_HealthyListedWithErrors ==
    /\ opc = "returned"
    /\ \E i \in DOMAIN Summary.monitoring.healthy :
          LET r == Summary.monitoring.healthy[i] IN
          /\ r.status = "healthy"
          /\ r.errorCount > 0
          /\ r.errorCount < ErrorThreshold
          /\ \E j \in DOMAIN Summary.monitoring.withErrors :
                Summary.monitoring.withErrors[j] = r

\* --------------------------------------------------------------------- C40
\* C40: once the run's deadline has passed applyFixes starts no batch that
\* had not yet begun: every step that starts a batch is taken when no more
\* than the run's budget has passed since the run began.
C40_NoBatchAfterDeadline ==
    [][(opc' = "batch" /\ batchIdx' # batchIdx) =>
          now - cycles[Len(cycles)].at <= RunDeadline]_vars

\* the first batch started before the deadline and has settled; the second
\* batch was started after the deadline and its attempt is in flight
C40_BatchStartedAfterDeadline ==
    /\ opc = "batch"
    /\ batchIdx = 2
    /\ \E i \in DOMAIN fixPromises, s \in DOMAIN attempts :
          LET first == fixPromises[i].functionName
              second == attempts[s].fn IN
          /\ first # second
          /\ fixAttempts[first] # NoEntry
          /\ fixAttempts[first].timestamp >= cycles[Len(cycles)].at
          /\ fixAttempts[first].timestamp - cycles[Len(cycles)].at <= RunDeadline
          /\ InFlight(attempts[s])
          /\ fixAttempts[second].timestamp - cycles[Len(cycles)].at > RunDeadline
          /\ fixAttempts[second].timestamp = now

====
